---- MODULE Spec2Model ----
(***************************************************************************)
(* Model of @plasius/ai: the resilient HTTP transport (fetchWithPolicy,    *)
(* src/src/platform/http-resilience.ts) and the capability routing engine  *)
(* (createAdapterPlatform).                                                *)
(*                                                                         *)
(* Transport conventions.  Numbers that the code treats as JavaScript      *)
(* numbers keep the precision the claims need: maxAttempts is carried in   *)
(* halves (X2), a numeric Retry-After value in units of 1/10000 s, the     *)
(* jitter ratio in percent and Math.random() as r / RandDen.  The injected *)
(* fetchFn is the environment: it resolves with a response, rejects with   *)
(* an error of its own, or, once the AbortController handed to it is       *)
(* aborted, rejects with that controller's abort reason (the WHATWG fetch  *)
(* contract).                                                              *)
(***************************************************************************)
EXTENDS Integers, Sequences, FiniteSets, TLC

VARIABLES
    rawPolicy,      \* options.policy as the caller passed it
    reqInit,        \* what options.createRequestInit() yields: method, signal
    abortReason,    \* externalSignal.reason once the signal is aborted
    extAborted,     \* externalSignal.aborted
    pc,             \* position of fetchWithPolicy
    attempt,        \* loop variable of fetchWithPolicy
    calls,          \* number of fetchFn invocations so far
    factoryCalls,   \* number of createRequestInit invocations so far
    settlement,     \* what fetchFn settled with, until fetchWithPolicy resumes
    history,        \* outcome of every attempt so far, in order
    delivered,      \* response the transport delivered on the current attempt
    lastError,      \* local lastError
    result,         \* settled value of the promise fetchWithPolicy returned
    retry,          \* how the pending retry was decided (header, backoff)
    delayMs,        \* argument of the current sleep(delayMs)
    sleepLeft,      \* part of the current sleep still to elapse
    abortedInSleep, \* the external signal fired while sleep() was pending
    timerArmed,     \* fetchWithTimeout's setTimeout is pending
    listenerOn      \* abortRelay is registered on the external signal

httpVars == <<rawPolicy, reqInit, abortReason, extAborted, pc, attempt, calls,
              factoryCalls, settlement, history, delivered, lastError, result, retry,
              delayMs, sleepLeft, abortedInSleep, timerArmed, listenerOn>>

VARIABLES
    adapters,       \* props.adapters, in registration order
    apiKeys,        \* props.apiKeys
    defaultAdapterByCapability, \* props.defaultAdapterByCapability ("" = unset)
    platform,       \* progress of createAdapterPlatform
    currentBalance, \* the platform's currentBalance
    opCalls,        \* the operation calls made on the platform, in order
    invocations,    \* every adapter handler invocation: who, what, request
    nextUuid,       \* how many values crypto.randomUUID() has handed out
    canHandleCalls  \* the canHandle calls made on the platform, with results

routeVars == <<adapters, apiKeys, defaultAdapterByCapability, platform,
               currentBalance, opCalls, invocations, nextUuid, canHandleCalls>>

VARIABLES
    videoJob,       \* the video call under study and its options
    fetchScript,    \* what the injected fetchFn answers, call by call
    netCalls,       \* every network call made so far, in order
    videoPc,        \* position of the video call
    videoLocals,    \* uploaded image id, generated video id, attempt,
                    \* delays waited, answers polled, the fetch call or
                    \* body read under way, the promise awaited
    videoResult     \* settled value of the promise the video call returned

videoVars == <<videoJob, fetchScript, netCalls, videoPc, videoLocals, videoResult>>

VARIABLES
    chatOptions,    \* the function of the chatbot client called, its options
    documentCookie, \* document.cookie
    cookieAtCall,   \* document.cookie when the function was called
    chatCalls,      \* every call the function made on its fetcher, in order
    chatPc,         \* position of the function
    chatResponse,   \* the response whose body parseResponseBody is reading
    chatResult      \* settled value of the promise the function returned

chatVars == <<chatOptions, documentCookie, cookieAtCall, chatCalls, chatPc,
              chatResponse, chatResult>>

VARIABLES
    openaiCall,     \* the operation called on the OpenAI adapter, its request
    openaiPc,       \* position of that operation
    openaiResult,   \* settled value of the promise the operation returned
    sent            \* what every call of fetchFn carried, in order

openaiVars == <<openaiCall, openaiPc, openaiResult, sent>>

clientVars == <<videoVars, chatVars, openaiVars>>

vars == <<httpVars, routeVars, clientVars>>

----------------------------------------------------------------------------
(* Bounds of the model                                                     *)

MaxAttemptsIn == 2
RandDen == 3
MaxCalls == 1
MaxProbes == 2
MaxConcurrent == 2

----------------------------------------------------------------------------
(* Values                                                                  *)

Max(a, b) == IF a >= b THEN a ELSE b
Min(a, b) == IF a <= b THEN a ELSE b

RECURSIVE Pow2(_)
Pow2(n) == IF n <= 0 THEN 1 ELSE 2 * Pow2(n - 1)

\* An optional number: a field of HttpClientPolicy that may be undefined.
None == [set |-> FALSE, v |-> 0]
Some(n) == [set |-> TRUE, v |-> n]
\* a ?? b
Coalesce(o, d) == IF o.set THEN o.v ELSE d

NoMethods == {"<undefined>"}
NoCodes == {-1}

DEFAULT_RETRYABLE_STATUS_CODES == {408, 409, 425, 429, 500, 502, 503, 504}
DEFAULT_RETRYABLE_METHODS == {"GET", "HEAD", "OPTIONS", "PUT", "DELETE", "POST"}

DefaultMaxAttempts == 3
DefaultTimeoutMs == 30000
DefaultBaseDelayMs == 250
DefaultMaxDelayMs == 4000
DefaultJitterPct == 20

\* String.prototype.toUpperCase on the method names the model uses.
toUpperCase(m) ==
    CASE m = "get" -> "GET"
      [] m = "post" -> "POST"
      [] m = "patch" -> "PATCH"
      [] OTHER -> m

normalizePolicy(policy) ==
    [ maxAttemptsX2 |-> Max(2, Coalesce(policy.maxAttemptsX2, 2 * DefaultMaxAttempts)),
      timeoutMs |-> Max(1, Coalesce(policy.timeoutMs, DefaultTimeoutMs)),
      baseDelayMs |-> Max(0, Coalesce(policy.baseDelayMs, DefaultBaseDelayMs)),
      maxDelayMs |-> Max(0, Coalesce(policy.maxDelayMs, DefaultMaxDelayMs)),
      jitterPct |-> Max(0, Coalesce(policy.jitterPct, DefaultJitterPct)),
      respectRetryAfter |-> IF policy.respectRetryAfter = "undefined" THEN TRUE
                            ELSE policy.respectRetryAfter = "true",
      retryableMethods |-> IF policy.retryableMethods = NoMethods
                           THEN DEFAULT_RETRYABLE_METHODS
                           ELSE {toUpperCase(m) : m \in policy.retryableMethods},
      retryableStatusCodes |-> IF policy.retryableStatusCodes = NoCodes
                               THEN DEFAULT_RETRYABLE_STATUS_CODES
                               ELSE policy.retryableStatusCodes ]

policy == normalizePolicy(rawPolicy)

\* Retry-After header values: absent, a decimal number of seconds (in units
\* of 1/10000 s), an HTTP date (as its distance from Date.now() in ms), or
\* text that is neither.
HdrAbsent == [kind |-> "absent", n |-> 0]
HdrSeconds(units) == [kind |-> "seconds", n |-> units]
HdrDate(deltaMs) == [kind |-> "date", n |-> deltaMs]
HdrGarbage == [kind |-> "garbage", n |-> 0]

NoMs == -1

\* NoMs stands for undefined.
parseRetryAfterMs(header) ==
    CASE header.kind = "absent" -> NoMs
      [] header.kind = "seconds" -> Max(0, (header.n + 5) \div 10)
      [] header.kind = "date" -> Max(0, header.n)
      [] OTHER -> NoMs

\* Variant: the exponential value is not capped by maxDelayMs.
computeBackoffDelayMs_Uncapped(retryIndex, baseDelayMs, maxDelayMs, jitterPct, r) ==
    LET exponent == Max(0, retryIndex - 1)
        exponential == baseDelayMs * Pow2(exponent)
        den == 100 * RandDen
    IN  IF exponential = 0 THEN 0
        ELSE (2 * exponential * den + 2 * exponential * jitterPct * r + den)
                \div (2 * den)

\* Math.round(capped + capped * jitterRatio * random), random = r / RandDen.
computeBackoffDelayMs(retryIndex, baseDelayMs, maxDelayMs, jitterPct, r) ==
    LET exponent == Max(0, retryIndex - 1)
        cappedExponential == Min(maxDelayMs, baseDelayMs * Pow2(exponent))
        den == 100 * RandDen
    IN  IF cappedExponential = 0 THEN 0
        ELSE (2 * cappedExponential * den + 2 * cappedExponential * jitterPct * r + den)
                \div (2 * den)

isAbortError(error) == error = "AbortError"

\* Variant: a TypeError is not taken for a transient failure.
isRetryableError_AbortOnly(error) == isAbortError(error)

\* Variant: every error is taken for a transient failure.
isRetryableError_Any(error) == TRUE

isRetryableError(error) == error = "TypeError" \/ isAbortError(error)

\* The message of the error that the timeout timer aborts the controller with
\* is "Request timed out after <timeoutMs>ms."; it is a plain Error.
TimeoutError == "TimeoutError"

NoResponse == [id |-> 0, status |-> 0, retryAfter |-> HdrAbsent, bodyCancelled |-> FALSE]
NoResult == [kind |-> "pending", response |-> NoResponse, error |-> "none"]
NoRetry == [cause |-> "none", header |-> HdrAbsent, retryAfterMs |-> NoMs, backoffMs |-> 0]

\* What fetchFn has settled with: a response, or an error recorded under
\* its tag (see Thrown).
NoSettlement == [kind |-> "none", response |-> NoResponse, tag |-> "none"]
Fulfilled(resp) == [kind |-> "response", response |-> resp, tag |-> "none"]
Failed(tag) == [kind |-> "error", response |-> NoResponse, tag |-> tag]

\* The error that a failed network call throws into fetchWithPolicy.
Thrown(tag) ==
    CASE tag = "timeout" -> TimeoutError
      [] tag = "extAbort" -> abortReason
      [] OTHER -> tag

Returned(resp) == [kind |-> "response", response |-> resp, error |-> "none"]
Rejected(err) == [kind |-> "error", response |-> NoResponse, error |-> err]

ok(resp) == resp.status >= 200 /\ resp.status <= 299

method == toUpperCase(IF reqInit.method = "undefined" THEN "GET" ELSE reqInit.method)

GenericError == "failed without a recoverable response"

----------------------------------------------------------------------------
(* Inputs of the model                                                     *)

RawMaxAttemptsX2 ==
    {None, Some(2 * MaxAttemptsIn + 1)} \cup {Some(2 * n) : n \in 0..MaxAttemptsIn}

RawPolicies ==
    [ maxAttemptsX2 : RawMaxAttemptsX2,
      timeoutMs : {None},
      baseDelayMs : {None, Some(0)},
      maxDelayMs : {None, Some(4), Some(300)},
      jitterPct : {None, Some(0)},
      respectRetryAfter : {"undefined", "false"},
      retryableMethods : {NoMethods, {"get"}},
      retryableStatusCodes : {NoCodes, {400}} ]

RequestInits == [method : {"undefined", "post", "PATCH"}, signal : BOOLEAN]

Statuses == {200, 400, 503}

RetryAfterHeaders ==
    {HdrAbsent, HdrGarbage, HdrSeconds(10000), HdrSeconds(10004), HdrDate(1500)}

\* What the transport can answer to call number id.
Responses(id) ==
    {[id |-> id, status |-> 200, retryAfter |-> HdrAbsent, bodyCancelled |-> FALSE]}
    \cup [id : {id}, status : {503}, retryAfter : RetryAfterHeaders,
          bodyCancelled : {FALSE}]
    \cup [id : {id}, status : Statuses \ {200, 503},
          retryAfter : {HdrAbsent, HdrSeconds(10000)}, bodyCancelled : {FALSE}]

\* Errors the injected fetchFn rejects with on its own account.
TransportErrors == {"TypeError", "AbortError", "OtherError"}

\* externalSignal.reason: the default DOMException AbortError, or a value the
\* caller passed to abort().
AbortReasons == {"AbortError", "CustomReason"}

Entry(status, error) == [status |-> status, error |-> error]

\* Strings that are trimmed are sequences of characters.
Whitespace == {" "}

RECURSIVE trimStart(_)
trimStart(str) ==
    IF str # <<>> /\ Head(str) \in Whitespace THEN trimStart(Tail(str)) ELSE str

RECURSIVE trimEnd(_)
trimEnd(str) ==
    IF str # <<>> /\ str[Len(str)] \in Whitespace
    THEN trimEnd(SubSeq(str, 1, Len(str) - 1)) ELSE str

trim(str) == trimEnd(trimStart(str))

----------------------------------------------------------------------------
(* The requests of the OpenAI adapter                                      *)

NoOpenAICall == [op |-> "none", apiKey |-> <<>>, traceId |-> <<>>]

OpenAIPending == [kind |-> "pending", value |-> "none", error |-> "none", status |-> 0]
OpenAIFulfilled(value) ==
    [kind |-> "fulfilled", value |-> value, error |-> "none", status |-> 0]
OpenAIRejected(error) ==
    [kind |-> "rejected", value |-> "none", error |-> error, status |-> 0]
\* new Error(message) for a response that is not ok; the fallback message
\* ends with the status, kept apart here.
OpenAIRequestFailed(message, status) ==
    [kind |-> "rejected", value |-> "none", error |-> message, status |-> status]

\* requireApiKey yields the trimmed key; <<>> stands for the error it throws
\* on a blank key.
requireApiKey(apiKey) == trim(apiKey)

\* The path each operation posts to, after the base URL.
openAIEndpoint(op) ==
    CASE op = "chatWithAI" -> "/chat/completions"
      [] op = "synthesizeSpeech" -> "/audio/speech"
      [] op = "transcribeSpeech" -> "/audio/transcriptions"
      [] op = "generateImage" -> "/images/generations"
      [] op = "generateModel" -> "/chat/completions"
      [] OTHER -> ""

\* Variant: every attempt is given an Idempotency-Key of its own.
openAIRequestInit_KeyPerAttempt(op, apiKey, traceId) ==
    [ url |-> openAIEndpoint(op),
      method |-> "POST",
      Authorization |-> <<"Bearer">> \o apiKey,
      IdempotencyKey |-> traceId \o (IF attempt = 1 THEN <<>> ELSE <<"r">>),
      XRequestId |-> traceId ]

\* The createRequestInit closure an operation of the adapter passes to
\* fetchWithPolicy: the method and the headers of the request.
openAIRequestInit(op, apiKey, traceId) ==
    [ url |-> openAIEndpoint(op),
      method |-> "POST",
      Authorization |-> <<"Bearer">> \o apiKey,
      IdempotencyKey |-> traceId,
      XRequestId |-> traceId ]

\* options.createRequestInit(), as the caller of fetchWithPolicy built it:
\* the closure of the OpenAI adapter, or a request without these headers.
createRequestInit ==
    IF openaiCall.op = "none"
    THEN [ url |-> "", method |-> reqInit.method, Authorization |-> <<>>,
           IdempotencyKey |-> <<>>, XRequestId |-> <<>> ]
    ELSE openAIRequestInit(openaiCall.op, requireApiKey(openaiCall.apiKey),
                           openaiCall.traceId)

----------------------------------------------------------------------------
(* fetchWithPolicy                                                         *)

HttpInit ==
    /\ rawPolicy \in RawPolicies
    /\ reqInit \in RequestInits
    /\ abortReason \in (IF reqInit.signal THEN AbortReasons ELSE {"none"})
    /\ extAborted \in (IF reqInit.signal THEN BOOLEAN ELSE {FALSE})
    /\ pc = "attempt"
    /\ attempt = 1
    /\ calls = 0
    /\ factoryCalls = 0
    /\ settlement = NoSettlement
    /\ history = <<>>
    /\ delivered = NoResponse
    /\ lastError = "undefined"
    /\ result = NoResult
    /\ retry = NoRetry
    /\ delayMs = 0
    /\ sleepLeft = 0
    /\ abortedInSleep = FALSE
    /\ timerArmed = FALSE
    /\ listenerOn = FALSE

\* Variant: the loop has no upper limit of its own.
LoopContinues_Unbounded == TRUE

\* Variant: the loop stops one attempt early.
LoopContinues_OneShort == 2 * attempt < policy.maxAttemptsX2

\* for (...; attempt <= policy.maxAttempts; ...)
LoopContinues == 2 * attempt <= policy.maxAttemptsX2

\* await sleep(delayMs): the loop is suspended until the promise of sleep
\* settles, with a timer pending when ms > 0 and none otherwise.
Sleep(ms) ==
    /\ delayMs' = ms
    /\ pc' = "sleeping"
    /\ attempt' = attempt
    /\ sleepLeft' = (IF ms <= 0 THEN 0 ELSE ms)

\* Variant: the finally block removes the listener and leaves the timer.
Finally_LeavesTimer ==
    /\ timerArmed' = timerArmed
    /\ listenerOn' = FALSE

\* The finally block of fetchWithTimeout.
Finally ==
    /\ timerArmed' = FALSE
    /\ listenerOn' = FALSE

\* Variant: the method is not looked at.
canRetryMethod_Always == TRUE

\* policy.retryableMethods.includes(method)
canRetryMethod == method \in policy.retryableMethods

\* Variant: every non-2xx status is retried.
canRetryStatus_Any(status) == TRUE

\* policy.retryableStatusCodes.includes(response.status)
canRetryStatus(status) == status \in policy.retryableStatusCodes

\* Variant: the last attempt's response is not returned unless it is 2xx.
returnsAtOnce_OkOnly(response) == ok(response)

\* response.ok || attempt >= policy.maxAttempts
returnsAtOnce(response) == ok(response) \/ 2 * attempt >= policy.maxAttemptsX2

\* Math.max(retryAfterMs ?? 0, backoffMs), with retryAfterMs read from the
\* header only when the policy respects it.
retryAfterOf(response) ==
    IF policy.respectRetryAfter THEN parseRetryAfterMs(response.retryAfter) ELSE NoMs

\* Variant: the Retry-After value is dropped from the delay.
responseDelayMs_BackoffOnly(retryAfterMs, backoffMs) == backoffMs

responseDelayMs(retryAfterMs, backoffMs) ==
    Max(IF retryAfterMs = NoMs THEN 0 ELSE retryAfterMs, backoffMs)

\* Variant: the catch block does not look at the external signal.
shouldRetry_IgnoresExternalAbort(error, externalAborted) ==
    /\ 2 * attempt < policy.maxAttemptsX2
    /\ canRetryMethod
    /\ isRetryableError(error)

\* shouldRetry of the catch block.
shouldRetry(error, externalAborted) ==
    /\ 2 * attempt < policy.maxAttemptsX2
    /\ canRetryMethod
    /\ ~externalAborted
    /\ isRetryableError(error)

\* catch (error) { ... } of fetchWithPolicy, for an error thrown inside the
\* try block while the external signal's aborted flag is externalAborted.
Catch(error, externalAborted) ==
        /\ lastError' = error
        /\ IF ~shouldRetry(error, externalAborted)
           THEN /\ pc' = "rejected"
                /\ result' = Rejected(error)
                /\ UNCHANGED <<attempt, retry, delayMs, sleepLeft>>
           ELSE \E r \in 0..(RandDen - 1) :
                  LET ms == computeBackoffDelayMs(attempt, policy.baseDelayMs,
                                policy.maxDelayMs, policy.jitterPct, r)
                  IN  /\ retry' = [cause |-> "error", header |-> HdrAbsent,
                                   retryAfterMs |-> NoMs, backoffMs |-> ms]
                      /\ Sleep(ms)
                      /\ UNCHANGED result

\* Variant: the request built for the first attempt serves the later ones.
CallFactory_ReusesRequest ==
    /\ pc = "attempt"
    /\ LoopContinues
    /\ factoryCalls' = (IF attempt = 1 THEN factoryCalls + 1 ELSE factoryCalls)
    /\ pc' = "factory"
    /\ UNCHANGED <<routeVars, clientVars>>
    /\ UNCHANGED <<settlement, rawPolicy, reqInit, abortReason, extAborted, attempt, calls,
                   history, delivered, lastError, result, retry, delayMs,
                   sleepLeft, abortedInSleep, timerArmed, listenerOn>>

\* The loop test passes and options.createRequestInit() is called and
\* awaited.
CallFactory ==
    /\ pc = "attempt"
    /\ LoopContinues
    /\ factoryCalls' = factoryCalls + 1
    /\ pc' = "factory"
    /\ UNCHANGED <<routeVars, clientVars>>
    /\ UNCHANGED <<settlement, rawPolicy, reqInit, abortReason, extAborted, attempt, calls,
                   history, delivered, lastError, result, retry, delayMs,
                   sleepLeft, abortedInSleep, timerArmed, listenerOn>>

\* The external signal fires while createRequestInit() is awaited: nothing
\* listens.
AbortDuringFactory ==
    /\ pc = "factory"
    /\ reqInit.signal
    /\ ~extAborted
    /\ extAborted' = TRUE
    /\ UNCHANGED <<routeVars, clientVars>>
    /\ UNCHANGED <<settlement, rawPolicy, reqInit, abortReason, pc, attempt, calls, factoryCalls,
                   history, delivered, lastError, result, retry, delayMs, sleepLeft,
                   abortedInSleep, timerArmed, listenerOn>>

\* createRequestInit() throws or rejects: the call is outside the try block.
FactoryThrows ==
    /\ pc = "factory"
    /\ history' = Append(history, Entry(0, "factory"))
    /\ pc' = "rejected"
    /\ result' = Rejected("FactoryError")
    /\ delivered' = NoResponse
    /\ UNCHANGED <<routeVars, clientVars>>
    /\ UNCHANGED <<settlement, rawPolicy, reqInit, abortReason, extAborted, attempt, calls,
                   factoryCalls, lastError, retry, delayMs, sleepLeft,
                   abortedInSleep, timerArmed, listenerOn>>

\* The factory has yielded the request and the signal is not aborted:
\* fetchWithTimeout arms the timer, registers abortRelay and calls fetchFn.
StartAttempt ==
    /\ pc = "factory"
    /\ ~(reqInit.signal /\ extAborted)
    /\ calls' = calls + 1
    /\ timerArmed' = TRUE
    /\ listenerOn' = reqInit.signal
    /\ delivered' = NoResponse
    /\ retry' = NoRetry
    /\ delayMs' = 0
    /\ pc' = "fetching"
    /\ sent' = Append(sent, createRequestInit)
    /\ UNCHANGED <<routeVars, videoVars, chatVars, openaiCall, openaiPc, openaiResult>>
    /\ UNCHANGED <<settlement, rawPolicy, reqInit, abortReason, extAborted, attempt, factoryCalls,
                   history, lastError, result, sleepLeft, abortedInSleep>>

\* Variant: the signal is looked at only after fetchFn has been called.
StartAttemptAborted_ChecksAfterCall ==
    /\ pc = "factory"
    /\ reqInit.signal /\ extAborted
    /\ calls' = calls + 1
    /\ history' = Append(history, Entry(0, "preAbort"))
    /\ delivered' = NoResponse
    /\ Catch(abortReason, TRUE)
    /\ UNCHANGED <<routeVars, clientVars>>
    /\ UNCHANGED <<settlement, rawPolicy, reqInit, abortReason, extAborted, factoryCalls,
                   abortedInSleep, timerArmed, listenerOn>>

\* The factory has yielded the request and the external signal is aborted:
\* fetchWithTimeout throws externalSignal.reason before calling fetchFn.
StartAttemptAborted ==
    /\ pc = "factory"
    /\ reqInit.signal /\ extAborted
    /\ history' = Append(history, Entry(0, "preAbort"))
    /\ delivered' = NoResponse
    /\ Catch(abortReason, TRUE)
    /\ UNCHANGED <<routeVars, clientVars>>
    /\ UNCHANGED <<settlement, rawPolicy, reqInit, abortReason, extAborted, calls, factoryCalls,
                   abortedInSleep, timerArmed, listenerOn>>

\* Variant: the error raised after the loop is always the generic one.
LoopExit_AlwaysGeneric ==
    /\ pc = "attempt"
    /\ ~LoopContinues
    /\ pc' = "rejected"
    /\ result' = Rejected(GenericError)
    /\ UNCHANGED <<routeVars, clientVars>>
    /\ UNCHANGED <<settlement, rawPolicy, reqInit, abortReason, extAborted, attempt, calls,
                   factoryCalls, history, delivered, lastError, retry, delayMs,
                   sleepLeft, abortedInSleep, timerArmed, listenerOn>>

\* The loop ends without having returned or thrown.
LoopExit ==
    /\ pc = "attempt"
    /\ ~LoopContinues
    /\ pc' = "rejected"
    /\ result' = Rejected(IF lastError = "undefined" THEN GenericError ELSE lastError)
    /\ UNCHANGED <<routeVars, clientVars>>
    /\ UNCHANGED <<settlement, rawPolicy, reqInit, abortReason, extAborted, attempt, calls,
                   factoryCalls, history, delivered, lastError, retry, delayMs,
                   sleepLeft, abortedInSleep, timerArmed, listenerOn>>

\* fetchFn resolves with a response: the continuation of fetchWithTimeout is
\* queued.
FetchResponds(response) ==
    /\ pc = "fetching"
    /\ settlement' = Fulfilled(response)
    /\ pc' = "settling"
    /\ UNCHANGED <<routeVars, clientVars>>
    /\ UNCHANGED <<rawPolicy, reqInit, abortReason, extAborted, attempt, calls,
                   factoryCalls, history, delivered, lastError, result, retry,
                   delayMs, sleepLeft, abortedInSleep, timerArmed, listenerOn>>

\* fetchFn rejects on its own account.
FetchRejects(error) ==
    /\ pc = "fetching"
    /\ settlement' = Failed(error)
    /\ pc' = "settling"
    /\ UNCHANGED <<routeVars, clientVars>>
    /\ UNCHANGED <<rawPolicy, reqInit, abortReason, extAborted, attempt, calls,
                   factoryCalls, history, delivered, lastError, result, retry,
                   delayMs, sleepLeft, abortedInSleep, timerArmed, listenerOn>>

\* No response within timeoutMs: the timer fires and aborts the controller
\* with the timeout Error, and fetchFn rejects with that reason.
TimeoutFires ==
    /\ pc = "fetching"
    /\ timerArmed
    /\ timerArmed' = FALSE
    /\ settlement' = Failed("timeout")
    /\ pc' = "settling"
    /\ UNCHANGED <<routeVars, clientVars>>
    /\ UNCHANGED <<rawPolicy, reqInit, abortReason, extAborted, attempt, calls,
                   factoryCalls, history, delivered, lastError, result, retry,
                   delayMs, sleepLeft, abortedInSleep, listenerOn>>

\* The external signal fires while fetchFn is pending: abortRelay, registered
\* once, aborts the controller with externalSignal.reason and fetchFn
\* rejects with it.
AbortDuringFetch ==
    /\ pc = "fetching"
    /\ listenerOn
    /\ ~extAborted
    /\ extAborted' = TRUE
    /\ listenerOn' = FALSE
    /\ settlement' = Failed("extAbort")
    /\ pc' = "settling"
    /\ UNCHANGED <<routeVars, clientVars>>
    /\ UNCHANGED <<rawPolicy, reqInit, abortReason, attempt, calls, factoryCalls,
                   history, delivered, lastError, result, retry, delayMs,
                   sleepLeft, abortedInSleep, timerArmed>>

\* The external signal fires when fetchFn has settled and fetchWithPolicy has
\* not resumed yet (in the same turn, or in a reaction to the settled
\* promise that runs first): abortRelay, if still registered, aborts a
\* controller whose call is over.
AbortAfterFetch ==
    /\ pc \in {"settling", "settled"}
    /\ reqInit.signal
    /\ ~extAborted
    /\ extAborted' = TRUE
    /\ listenerOn' = FALSE
    /\ UNCHANGED <<routeVars, clientVars>>
    /\ UNCHANGED <<rawPolicy, reqInit, abortReason, pc, attempt, calls, factoryCalls,
                   settlement, history, delivered, lastError, result, retry,
                   delayMs, sleepLeft, abortedInSleep, timerArmed>>

\* fetchWithTimeout resumes after await fetchFn(...): its finally block runs
\* and its promise settles as fetchFn did.
FetchWithTimeoutSettles ==
    /\ pc = "settling"
    /\ Finally
    /\ pc' = "settled"
    /\ UNCHANGED <<routeVars, clientVars>>
    /\ UNCHANGED <<rawPolicy, reqInit, abortReason, extAborted, attempt, calls,
                   factoryCalls, settlement, history, delivered, lastError, result,
                   retry, delayMs, sleepLeft, abortedInSleep>>

\* fetchWithPolicy resumes in its try block with the response: it returns
\* it, or decides the delay of the retry and calls response.body?.cancel().
HandleResponse ==
    /\ pc = "settled"
    /\ settlement.kind = "response"
    /\ settlement' = NoSettlement
    /\ LET response == settlement.response
       IN
       /\ history' = Append(history, Entry(response.status, "none"))
       /\ IF returnsAtOnce(response)
          THEN /\ pc' = "returned"
               /\ result' = Returned(response)
               /\ delivered' = response
               /\ UNCHANGED <<attempt, retry, delayMs, sleepLeft>>
          ELSE IF ~canRetryMethod \/ ~canRetryStatus(response.status)
               THEN /\ pc' = "returned"
                    /\ result' = Returned(response)
                    /\ delivered' = response
                    /\ UNCHANGED <<attempt, retry, delayMs, sleepLeft>>
               ELSE \E r \in 0..(RandDen - 1) :
                      LET retryAfterMs == retryAfterOf(response)
                          backoffMs == computeBackoffDelayMs(attempt, policy.baseDelayMs,
                                           policy.maxDelayMs, policy.jitterPct, r)
                          ms == responseDelayMs(retryAfterMs, backoffMs)
                      IN  /\ retry' = [cause |-> "status", header |-> response.retryAfter,
                                       retryAfterMs |-> retryAfterMs,
                                       backoffMs |-> backoffMs]
                          /\ delivered' = [response EXCEPT !.bodyCancelled = TRUE]
                          /\ delayMs' = ms
                          /\ pc' = "cancelling"
                          /\ UNCHANGED <<attempt, sleepLeft, result>>
    /\ UNCHANGED <<routeVars, clientVars>>
    /\ UNCHANGED <<rawPolicy, reqInit, abortReason, extAborted, calls, factoryCalls,
                   lastError, abortedInSleep, timerArmed, listenerOn>>

\* fetchWithPolicy resumes in its catch block with the error, and reads
\* requestInit.signal.aborted as it is now.
HandleError ==
    /\ pc = "settled"
    /\ settlement.kind = "error"
    /\ settlement' = NoSettlement
    /\ history' = Append(history, Entry(0, settlement.tag))
    /\ Catch(Thrown(settlement.tag), reqInit.signal /\ extAborted)
    /\ UNCHANGED <<routeVars, clientVars>>
    /\ UNCHANGED <<rawPolicy, reqInit, abortReason, extAborted, calls, factoryCalls,
                   delivered, abortedInSleep, timerArmed, listenerOn>>

\* The external signal fires while response.body?.cancel() is awaited:
\* nothing listens.
AbortDuringCancel ==
    /\ pc = "cancelling"
    /\ reqInit.signal
    /\ ~extAborted
    /\ extAborted' = TRUE
    /\ UNCHANGED <<routeVars, clientVars>>
    /\ UNCHANGED <<settlement, rawPolicy, reqInit, abortReason, pc, attempt, calls, factoryCalls,
                   history, delivered, lastError, result, retry, delayMs, sleepLeft,
                   abortedInSleep, timerArmed, listenerOn>>

\* The promise of response.body?.cancel() settles: fulfilled, or rejected
\* and the rejection caught and ignored; sleep(delayMs) is called.
BodyCancelSettles ==
    /\ pc = "cancelling"
    /\ Sleep(delayMs)
    /\ UNCHANGED <<routeVars, clientVars>>
    /\ UNCHANGED <<settlement, rawPolicy, reqInit, abortReason, extAborted, calls, factoryCalls,
                   history, delivered, lastError, result, retry, abortedInSleep,
                   timerArmed, listenerOn>>

\* The external signal fires while sleep() is awaited: nothing listens.
AbortDuringSleep ==
    /\ pc = "sleeping"
    /\ reqInit.signal
    /\ ~extAborted
    /\ extAborted' = TRUE
    /\ abortedInSleep' = TRUE
    /\ UNCHANGED <<routeVars, clientVars>>
    /\ UNCHANGED <<settlement, rawPolicy, reqInit, abortReason, pc, attempt, calls, factoryCalls,
                   history, delivered, lastError, result, retry, delayMs, sleepLeft,
                   timerArmed, listenerOn>>

\* Time passes while sleep()'s timer is pending: half of the delay, or the
\* rest of it.
SleepElapse ==
    /\ pc = "sleeping"
    /\ sleepLeft > 0
    /\ \E d \in {sleepLeft} \cup (IF sleepLeft = delayMs /\ delayMs > 1
                                 THEN {(delayMs + 1) \div 2} ELSE {}) :
          sleepLeft' = sleepLeft - d
    /\ UNCHANGED <<routeVars, clientVars>>
    /\ UNCHANGED <<settlement, rawPolicy, reqInit, abortReason, extAborted, pc, attempt, calls,
                   factoryCalls, history, delivered, lastError, result, retry,
                   delayMs, abortedInSleep, timerArmed, listenerOn>>

\* The promise of sleep() settles, after the whole delay when a timer was
\* set; the loop moves to the next attempt.
SleepDone ==
    /\ pc = "sleeping"
    /\ sleepLeft = 0
    /\ pc' = "attempt"
    /\ attempt' = attempt + 1
    /\ UNCHANGED <<routeVars, clientVars>>
    /\ UNCHANGED <<settlement, rawPolicy, reqInit, abortReason, extAborted, calls, factoryCalls,
                   history, delivered, lastError, result, retry, delayMs, sleepLeft,
                   abortedInSleep, timerArmed, listenerOn>>

----------------------------------------------------------------------------
(* Routing engine: values                                                  *)

\* enum AICapability, as declared.
Capabilities == {"Chat", "Text", "Speech", "Image", "Video", "Balance"}

\* The routing engine also names AICapability.Model, which the enum does not
\* declare: the expression evaluates to undefined.
AICapabilityModel == "undefined"

\* The values the routing engine is handed as a capability.
RoutedCapabilities == Capabilities \cup {AICapabilityModel}

Operations == {"chatWithAI", "synthesizeSpeech", "transcribeSpeech", "generateImage",
               "produceVideo", "generateModel", "checkBalance"}

\* The capability each platform operation resolves.
OperationCapability(op) ==
    CASE op = "chatWithAI" -> "Chat"
      [] op = "synthesizeSpeech" -> "Speech"
      [] op = "transcribeSpeech" -> "Speech"
      [] op = "generateImage" -> "Image"
      [] op = "produceVideo" -> "Video"
      [] op = "generateModel" -> AICapabilityModel
      [] OTHER -> "Balance"

\* An entry of props.apiKeys: absent, or a string.
KeyAbsent == [present |-> FALSE, value |-> <<>>]
KeyOf(str) == [present |-> TRUE, value |-> str]

\* Variant: a key that is not blank is handed on as it was registered.
resolveApiKey_Untrimmed(providerId) ==
    IF providerId \notin DOMAIN apiKeys THEN <<>>
    ELSE LET entry == apiKeys[providerId]
         IN  IF ~entry.present \/ trim(entry.value) = <<>> THEN <<>>
             ELSE entry.value

\* resolveApiKey: the trimmed key, or <<>> for undefined.  The table has no
\* entry for an id outside its domain.
resolveApiKey(providerId) ==
    IF providerId \notin DOMAIN apiKeys THEN <<>>
    ELSE LET entry == apiKeys[providerId]
         IN  IF ~entry.present THEN <<>> ELSE trim(entry.value)

\* adapterById.get(id): index into adapters, 0 for undefined.  The map keeps
\* one adapter per id; construction has rejected duplicates.
adapterById(id) ==
    IF \E i \in 1..Len(adapters) : adapters[i].id = id
    THEN CHOOSE i \in 1..Len(adapters) :
            /\ adapters[i].id = id
            /\ \A j \in 1..(i - 1) : adapters[j].id # id
    ELSE 0

\* Variant: no handler is asked for.
requiresOperationalMethod_Always(capability, adapter) == TRUE

requiresOperationalMethod(capability, adapter) ==
    CASE capability = "Chat" -> "chatWithAI" \in adapter.handlers
      [] capability = "Text" -> TRUE
      [] capability = "Speech" -> ("synthesizeSpeech" \in adapter.handlers
                                   \/ "transcribeSpeech" \in adapter.handlers)
      [] capability = "Image" -> "generateImage" \in adapter.handlers
      [] capability = "Video" -> "produceVideo" \in adapter.handlers
      [] capability = "Balance" -> "checkBalance" \in adapter.handlers
      [] capability = AICapabilityModel -> "generateModel" \in adapter.handlers
      [] OTHER -> FALSE

Resolved(i, key) == [kind |-> "resolved", adapter |-> i, apiKey |-> key,
                     message |-> "", about |-> ""]
\* fail(message): throws when required, undefined otherwise.
fail(message, about, required) ==
    [kind |-> IF required THEN "throws" ELSE "undefined", adapter |-> 0,
     apiKey |-> <<>>, message |-> message, about |-> about]

\* Variant: the scan looks at the declared capabilities only.
findFallback_DeclaredOnly(capability, operation) ==
    LET candidates == {i \in 1..Len(adapters) :
                          capability \in adapters[i].capabilities}
    IN  IF candidates = {} THEN 0
        ELSE CHOOSE i \in candidates : \A j \in candidates : i <= j

\* props.adapters.find(declares the capability and has the handler): index of
\* the first such adapter, 0 for undefined.
findFallback(capability, operation) ==
    LET candidates == {i \in 1..Len(adapters) :
                          /\ capability \in adapters[i].capabilities
                          /\ operation \in adapters[i].handlers}
    IN  IF candidates = {} THEN 0
        ELSE CHOOSE i \in candidates : \A j \in candidates : i <= j

\* Variant: the adapter found by the scan is used without a look at its key.
resolveFallback_SkipsKeyCheck(capability, operation, required) ==
    LET fallback == findFallback(capability, operation)
    IN  IF fallback = 0
        THEN fail("No adapter found for capability", capability, required)
        ELSE Resolved(fallback, resolveApiKey(adapters[fallback].id))

\* The branch of resolveAdapter without a configured default.
resolveFallback(capability, operation, required) ==
    LET fallback == findFallback(capability, operation)
    IN  IF fallback = 0
        THEN fail("No adapter found for capability", capability, required)
        ELSE IF resolveApiKey(adapters[fallback].id) = <<>>
        THEN fail("Missing API key for adapter", adapters[fallback].id, required)
        ELSE Resolved(fallback, resolveApiKey(adapters[fallback].id))

\* Variant: a broken configured default falls back to automatic selection.
resolveConfigured_FallsBack(configuredId, capability, operation, required) ==
    LET configured == adapterById(configuredId)
    IN  IF /\ configured # 0
           /\ capability \in adapters[configured].capabilities
           /\ operation \in adapters[configured].handlers
           /\ resolveApiKey(adapters[configured].id) # <<>>
        THEN Resolved(configured, resolveApiKey(adapters[configured].id))
        ELSE resolveFallback(capability, operation, required)

\* Variant: a configured default without a key is used all the same.
resolveConfigured_KeyOptional(configuredId, capability, operation, required) ==
    LET configured == adapterById(configuredId)
    IN  IF configured = 0
        THEN fail("Configured adapter was not found", configuredId, required)
        ELSE IF capability \notin adapters[configured].capabilities
        THEN fail("Configured adapter does not declare capability", configuredId, required)
        ELSE IF operation \notin adapters[configured].handlers
        THEN fail("Configured adapter does not implement", configuredId, required)
        ELSE Resolved(configured, resolveApiKey(adapters[configured].id))

\* The branch of resolveAdapter for a configured default adapter id.
resolveConfigured(configuredId, capability, operation, required) ==
    LET configured == adapterById(configuredId)
    IN  IF configured = 0
        THEN fail("Configured adapter was not found", configuredId, required)
        ELSE IF capability \notin adapters[configured].capabilities
        THEN fail("Configured adapter does not declare capability", configuredId, required)
        ELSE IF operation \notin adapters[configured].handlers
        THEN fail("Configured adapter does not implement", configuredId, required)
        ELSE IF resolveApiKey(adapters[configured].id) = <<>>
        THEN fail("Missing API key for configured adapter",
                  adapters[configured].id, required)
        ELSE Resolved(configured, resolveApiKey(adapters[configured].id))

\* Variant: the configured default is not consulted.
resolveAdapter_IgnoresDefault(capability, operation, required) ==
    resolveFallback(capability, operation, required)

resolveAdapter(capability, operation, required) ==
    LET configuredId == defaultAdapterByCapability[capability]
    IN  IF configuredId # ""
        THEN resolveConfigured(configuredId, capability, operation, required)
        ELSE resolveFallback(capability, operation, required)

\* The adapter canHandle examines for a capability: the configured default,
\* or the first adapter that declares the capability; 0 for undefined.
canHandleAdapter(capability) ==
    LET configuredId == defaultAdapterByCapability[capability]
        declaring == {i \in 1..Len(adapters) :
                         capability \in adapters[i].capabilities}
    IN  IF configuredId # "" THEN adapterById(configuredId)
        ELSE IF declaring = {} THEN 0
        ELSE CHOOSE i \in declaring : \A j \in declaring : i <= j

\* What adapter.canHandle([capability]) answers.
adapterAccepts(adapter, capabilities) == adapter.canHandle = "accepts"

\* One canHandle call on the platform: settled with its result, or pending
\* at the capability about which an adapter's own canHandle is awaited.
\* stale: props.apiKeys has been changed since the call was made.
ProbeSettled(capabilities, answer, asked) ==
    [capabilities |-> capabilities, state |-> "settled", at |-> 0,
     asked |-> asked, result |-> answer, stale |-> FALSE]
ProbePending(capabilities, n, asked) ==
    [capabilities |-> capabilities, state |-> "pending", at |-> n,
     asked |-> asked, result |-> FALSE, stale |-> FALSE]

\* Variant: the body of the loop does not look at the API key.
checkCapability_IgnoresKey(capability) ==
    LET i == canHandleAdapter(capability)
    IN  IF i = 0 THEN [ok |-> FALSE, asks |-> 0]
        ELSE IF capability \notin adapters[i].capabilities
        THEN [ok |-> FALSE, asks |-> 0]
        ELSE IF ~requiresOperationalMethod(capability, adapters[i])
        THEN [ok |-> FALSE, asks |-> 0]
        ELSE IF adapters[i].canHandle # "absent"
        THEN [ok |-> TRUE, asks |-> i]
        ELSE [ok |-> TRUE, asks |-> 0]

\* The body of canHandle's loop for one capability, up to the await: whether
\* the checks pass, and the adapter whose own canHandle is then called (0
\* when it has none).
checkCapability(capability) ==
    LET i == canHandleAdapter(capability)
    IN  IF i = 0 THEN [ok |-> FALSE, asks |-> 0]
        ELSE IF capability \notin adapters[i].capabilities
        THEN [ok |-> FALSE, asks |-> 0]
        ELSE IF resolveApiKey(adapters[i].id) = <<>>
        THEN [ok |-> FALSE, asks |-> 0]
        ELSE IF ~requiresOperationalMethod(capability, adapters[i])
        THEN [ok |-> FALSE, asks |-> 0]
        ELSE IF adapters[i].canHandle # "absent"
        THEN [ok |-> TRUE, asks |-> i]
        ELSE [ok |-> TRUE, asks |-> 0]

\* canHandle's loop from capability number n on, as far as it runs without
\* yielding: to the return, or to the await of an adapter's own canHandle.
RECURSIVE canHandleLoop(_, _, _)
canHandleLoop(capabilities, n, asked) ==
    IF n > Len(capabilities) THEN ProbeSettled(capabilities, TRUE, asked)
    ELSE LET step == checkCapability(capabilities[n])
         IN  IF ~step.ok THEN ProbeSettled(capabilities, FALSE, asked)
             ELSE IF step.asks # 0
             THEN ProbePending(capabilities, n,
                      Append(asked, [adapter |-> step.asks,
                                     capabilities |-> <<capabilities[n]>>]))
             ELSE canHandleLoop(capabilities, n + 1, asked)

\* Variant: only the first canHandle call of a platform examines anything.
canHandle_FirstCallOnly(capabilities) ==
    IF canHandleCalls # <<>> THEN ProbeSettled(capabilities, FALSE, <<>>)
    ELSE canHandleLoop(capabilities, 1, <<>>)

\* canHandle from its call to its first await or its return.
canHandle(capabilities) == canHandleLoop(capabilities, 1, <<>>)

NoRequest == [userId |-> "", providerId |-> "", apiKey |-> <<>>, traceId |-> 0]

\* Variant: one trace id serves every context.
createAdapterContext_SharedTrace(requestorId, adapter, apiKey, uuid) ==
    [userId |-> requestorId, providerId |-> adapter.id, apiKey |-> apiKey,
     traceId |-> 1]

\* createAdapterContext, with the UUID that crypto.randomUUID() hands out.
createAdapterContext(requestorId, adapter, apiKey, uuid) ==
    [userId |-> requestorId, providerId |-> adapter.id, apiKey |-> apiKey,
     traceId |-> uuid]

NoCompletion == [partitionKey |-> "", id |-> "", type |-> "", producer |-> "",
                 balance |-> 0]

\* Variant: the zero-balance completion is filed under the constructing user.
zeroBalanceCompletion_WrongOwner(requestorId, uuid) ==
    [partitionKey |-> "u1", id |-> <<"uuid", uuid>>,
     type |-> "balanceCompletion", producer |-> "", balance |-> 0]

\* The zero-balance completion of checkBalance (createCompletionBase plus
\* balance: 0); uuid is the value crypto.randomUUID() hands out.
zeroBalanceCompletion(requestorId, uuid) ==
    [partitionKey |-> requestorId, id |-> <<"uuid", uuid>>,
     type |-> "balanceCompletion", producer |-> "", balance |-> 0]

\* The completions a handler may produce: its own business, the routing
\* engine must hand them on as they are.
HandlerCompletions(adapterId, operation, request) ==
    { [partitionKey |-> request.userId, id |-> <<"handler", request.traceId>>,
       type |-> operation, producer |-> adapterId, balance |-> b]
        : b \in (IF operation = "checkBalance" THEN {0, 5} ELSE {0}) }

HandlerErrors == {"handler failed"}

\* One operation call on the platform.
Call(op, requestor, state, adapter, request, completion, error) ==
    [op |-> op, requestor |-> requestor, state |-> state, adapter |-> adapter,
     request |-> request, completion |-> completion, error |-> error]

\* How the promise a handler returned has settled, if it has.
OutcomePending == [kind |-> "pending", completion |-> NoCompletion, error |-> ""]
OutcomeFulfilled(completion) ==
    [kind |-> "fulfilled", completion |-> completion, error |-> ""]
OutcomeRejected(error) ==
    [kind |-> "rejected", completion |-> NoCompletion, error |-> error]

\* One handler invocation, with the outcome of the handler.
Invocation(call, adapter, operation, request) ==
    [call |-> call, adapter |-> adapter, operation |-> operation,
     request |-> request, outcome |-> OutcomePending]

\* Variant: a completion is stamped anew by the platform on its way out.
settleCall_Restamps(call, outcome) ==
    IF outcome.kind = "fulfilled"
    THEN [call EXCEPT !.state = "fulfilled",
                      !.completion = [outcome.completion EXCEPT !.producer = ""]]
    ELSE [call EXCEPT !.state = "rejected", !.error = <<outcome.error>>]

\* An operation returns the promise of the handler: the call settles as the
\* handler does, with its completion or its error.
settleCall(call, outcome) ==
    IF outcome.kind = "fulfilled"
    THEN [call EXCEPT !.state = "fulfilled", !.completion = outcome.completion]
    ELSE [call EXCEPT !.state = "rejected", !.error = <<outcome.error>>]

\* Variant: a rejected eager balance check leaves a platform with balance 0.
settleConstruction_ZeroOnReject(outcome) ==
    IF outcome.kind = "fulfilled"
    THEN [platform |-> "ready", currentBalance |-> outcome.completion.balance]
    ELSE [platform |-> "ready", currentBalance |-> 0]

\* createAdapterPlatform awaits its eager checkBalance: it returns the
\* platform with the balance of the completion, or rejects with the error.
settleConstruction(outcome) ==
    IF outcome.kind = "fulfilled"
    THEN [platform |-> "ready", currentBalance |-> outcome.completion.balance]
    ELSE [platform |-> "failed", currentBalance |-> 0]

----------------------------------------------------------------------------
(* Routing engine: inputs of the model                                     *)

ConstructingUser == "u1"
Requestors == {"u2"}

CapabilitySets == {{}, {"Image"}, {"Image", "Speech", "Balance"}}
HandlerSets == {{}, {"generateImage"}, {"transcribeSpeech"},
                {"generateImage", "synthesizeSpeech", "checkBalance"}}

AdapterShapes == [capabilities : CapabilitySets, handlers : HandlerSets,
                  canHandle : {"absent"}]

Adapter(id, shape) == [id |-> id, capabilities |-> shape.capabilities,
                       handlers |-> shape.handlers, canHandle |-> shape.canHandle]

\* Registries: none, one, two adapters in either order, a duplicated id, an
\* empty id, a whitespace-only id after a well-formed one.
AdapterLists ==
    {<<>>}
    \cup {<<Adapter("A", a)>> : a \in AdapterShapes}
    \cup {<<Adapter("A", a), Adapter("B", b)>> : a \in AdapterShapes, b \in AdapterShapes}
    \cup {<<Adapter("B", b), Adapter("A", a)>> : a \in AdapterShapes, b \in AdapterShapes}
    \cup {<<Adapter("A", a), Adapter("A", a)>> : a \in AdapterShapes}
    \cup {<<Adapter("", a)>> : a \in AdapterShapes}
    \cup {<<Adapter("A", a), Adapter(" ", b)>> : a \in AdapterShapes, b \in AdapterShapes}

ApiKeyTables ==
    [A : {KeyAbsent, KeyOf(<<" ", "a", " ">>)},
     B : {KeyOf(<<" ">>), KeyOf(<<"b">>)}]

NoDefaults == [c \in RoutedCapabilities |-> ""]

DefaultTables ==
    {NoDefaults}
    \cup {[NoDefaults EXCEPT ![c] = id] :
            c \in {"Image", "Speech", "Balance"}, id \in {"B", "C"}}

\* Registries for the study of canHandle: the adapters may bring a canHandle
\* of their own that accepts or rejects.  An adapter that declares Image
\* without a handler, one that generates images, one that declares every
\* capability with every handler but transcribeSpeech, one that declares
\* every capability and only transcribes.
AskedAdapterShapes ==
    {[capabilities |-> {"Image"}, handlers |-> {}, canHandle |-> "absent"]}
    \cup [capabilities : {{"Image"}}, handlers : {{"generateImage"}},
          canHandle : {"absent", "accepts", "rejects"}]
    \cup [capabilities : {RoutedCapabilities},
          handlers : {Operations \ {"transcribeSpeech"}},
          canHandle : {"absent", "accepts", "rejects"}]
    \cup [capabilities : {RoutedCapabilities},
          handlers : {{"transcribeSpeech"}}, canHandle : {"absent", "accepts"}]

\* The shapes of the adapter registered next to it: one that serves Image
\* only, one fully equipped that accepts, one that transcribes and refuses.
AskedSecondShapes ==
    {[capabilities |-> {"Image"}, handlers |-> {"generateImage"},
      canHandle |-> "absent"],
     [capabilities |-> RoutedCapabilities,
      handlers |-> Operations \ {"transcribeSpeech"}, canHandle |-> "accepts"],
     [capabilities |-> RoutedCapabilities,
      handlers |-> {"transcribeSpeech"}, canHandle |-> "rejects"]}

AskedAdapterLists ==
    {<<Adapter("A", a)>> : a \in AskedAdapterShapes}
    \cup {<<Adapter("A", a), Adapter("B", b)>> :
              a \in AskedAdapterShapes, b \in AskedSecondShapes}
    \cup {<<Adapter("B", b), Adapter("A", a)>> :
              a \in AskedAdapterShapes, b \in AskedSecondShapes}

AskedDefaultTables ==
    {NoDefaults}
    \cup {[NoDefaults EXCEPT !["Image"] = id] : id \in {"B", "C"}}

\* Callers and registries for the study of overlapping calls: two adapters
\* with keys of their own, A fully equipped and B in every shape.
ConcurrentRequestors == {"u2", "u3"}

FullShape == [capabilities |-> {"Image", "Speech", "Balance"},
              handlers |-> {"generateImage", "synthesizeSpeech", "checkBalance"},
              canHandle |-> "absent"]

ConcurrentAdapterLists ==
    {<<Adapter("A", FullShape), Adapter("B", b)>> : b \in AdapterShapes}

ConcurrentKeyTables ==
    {[A |-> KeyOf(<<" ", "a", " ">>), B |-> KeyOf(<<"b">>)]}

ConcurrentDefaultTables ==
    {NoDefaults, [NoDefaults EXCEPT !["Image"] = "B"]}

\* The capability lists handed to canHandle: none, each value the routing
\* engine knows, and a list of two.
CapabilityLists ==
    {<<>>, <<"Image", "Speech">>} \cup {<<c>> : c \in RoutedCapabilities}

----------------------------------------------------------------------------
(* createAdapterPlatform and the operations of the platform it returns     *)

RouteInit ==
    /\ adapters \in AdapterLists
    /\ apiKeys \in ApiKeyTables
    /\ defaultAdapterByCapability \in DefaultTables
    /\ platform = "new"
    /\ currentBalance = 0
    /\ opCalls = <<>>
    /\ invocations = <<>>
    /\ nextUuid = 1
    /\ canHandleCalls = <<>>

\* String.prototype.trim on the adapter ids the model uses.
trimId(id) == IF id = " " THEN "" ELSE id

\* Variant: the validation loop does not look for duplicates.
idsRejected_BlankOnly ==
    \E i \in 1..Len(adapters) :
        \/ adapters[i].id = ""
        \/ trimId(adapters[i].id) = ""

\* The validation loop of createAdapterPlatform throws.
idsRejected ==
    \E i \in 1..Len(adapters) :
        \/ adapters[i].id = ""
        \/ trimId(adapters[i].id) = ""
        \/ \E j \in 1..(i - 1) : adapters[j].id = adapters[i].id

\* createAdapterPlatform up to the await of its eager checkBalance(userId).
Construct ==
    /\ platform = "new"
    /\ IF idsRejected
       THEN /\ platform' = "failed"
            /\ UNCHANGED <<currentBalance, invocations, nextUuid>>
       ELSE LET resolved == resolveAdapter("Balance", "checkBalance", FALSE)
            IN  IF resolved.kind # "resolved"
                   \/ "checkBalance" \notin adapters[resolved.adapter].handlers
                THEN /\ platform' = "ready"
                     /\ currentBalance' =
                           zeroBalanceCompletion(ConstructingUser, nextUuid).balance
                     /\ nextUuid' = nextUuid + 1
                     /\ UNCHANGED invocations
                ELSE /\ platform' = "constructing"
                     /\ invocations' = Append(invocations,
                           Invocation(0, resolved.adapter, "checkBalance",
                              createAdapterContext(ConstructingUser,
                                 adapters[resolved.adapter], resolved.apiKey, nextUuid)))
                     /\ nextUuid' = nextUuid + 1
                     /\ UNCHANGED currentBalance
    /\ UNCHANGED <<canHandleCalls, adapters, apiKeys, defaultAdapterByCapability,
                   opCalls>>
    /\ UNCHANGED <<httpVars, clientVars>>

\* The eager checkBalance handler call settles.
ConstructSettles ==
    /\ platform = "constructing"
    /\ LET j == Len(invocations)
           inv == invocations[j]
       IN  \E outcome \in
                 {OutcomeFulfilled(c) :
                     c \in HandlerCompletions(adapters[inv.adapter].id,
                                              "checkBalance", inv.request)}
                 \cup {OutcomeRejected(e) : e \in HandlerErrors} :
              /\ invocations' = [invocations EXCEPT ![j].outcome = outcome]
              /\ platform' = settleConstruction(outcome).platform
              /\ currentBalance' = settleConstruction(outcome).currentBalance
    /\ UNCHANGED <<canHandleCalls, adapters, apiKeys, defaultAdapterByCapability,
                   opCalls, nextUuid>>
    /\ UNCHANGED <<httpVars, clientVars>>

\* Variant: the handler is invoked a second time.
routeRequired_InvokesTwice(op, requestor) ==
    /\ platform = "ready"
    /\ LET resolved == resolveAdapter(OperationCapability(op), op, TRUE)
           request == createAdapterContext(requestor, adapters[resolved.adapter],
                                           resolved.apiKey, nextUuid)
       IN  IF resolved.kind # "resolved"
           THEN /\ opCalls' = Append(opCalls,
                     Call(op, requestor, "rejected", 0, NoRequest, NoCompletion,
                          <<resolved.message, resolved.about>>))
                /\ UNCHANGED <<invocations, nextUuid>>
           ELSE /\ opCalls' = Append(opCalls,
                     Call(op, requestor, "pending", resolved.adapter, request,
                          NoCompletion, <<>>))
                /\ invocations' = invocations \o
                     << Invocation(Len(opCalls) + 1, resolved.adapter, op, request),
                        Invocation(Len(opCalls) + 1, resolved.adapter, op, request) >>
                /\ nextUuid' = nextUuid + 1
    /\ UNCHANGED <<canHandleCalls, adapters, apiKeys, defaultAdapterByCapability,
                   platform, currentBalance>>
    /\ UNCHANGED <<httpVars, clientVars>>

\* The body of a platform operation whose resolution is required, up to the
\* handler call.
routeRequired(op, requestor) ==
    /\ platform = "ready"
    /\ LET resolved == resolveAdapter(OperationCapability(op), op, TRUE)
           request == createAdapterContext(requestor, adapters[resolved.adapter],
                                           resolved.apiKey, nextUuid)
       IN  IF resolved.kind # "resolved"
           THEN /\ opCalls' = Append(opCalls,
                     Call(op, requestor, "rejected", 0, NoRequest, NoCompletion,
                          <<resolved.message, resolved.about>>))
                /\ UNCHANGED <<invocations, nextUuid>>
           ELSE /\ opCalls' = Append(opCalls,
                     Call(op, requestor, "pending", resolved.adapter, request,
                          NoCompletion, <<>>))
                /\ invocations' = Append(invocations,
                     Invocation(Len(opCalls) + 1, resolved.adapter, op, request))
                /\ nextUuid' = nextUuid + 1
    /\ UNCHANGED <<canHandleCalls, adapters, apiKeys, defaultAdapterByCapability,
                   platform, currentBalance>>
    /\ UNCHANGED <<httpVars, clientVars>>

\* One of the six mandatory operations is called.
RequiredOperation(op, requestor) ==
    /\ Len(opCalls) < MaxCalls
    /\ routeRequired(op, requestor)

ChatWithAI == \E requestor \in Requestors : RequiredOperation("chatWithAI", requestor)
SynthesizeSpeech ==
    \E requestor \in Requestors : RequiredOperation("synthesizeSpeech", requestor)
TranscribeSpeech ==
    \E requestor \in Requestors : RequiredOperation("transcribeSpeech", requestor)
GenerateImage == \E requestor \in Requestors : RequiredOperation("generateImage", requestor)
ProduceVideo == \E requestor \in Requestors : RequiredOperation("produceVideo", requestor)
GenerateModel == \E requestor \in Requestors : RequiredOperation("generateModel", requestor)

\* The body of checkBalance: resolution is optional, with the zero-balance
\* fallback.
routeCheckBalance(requestor) ==
    /\ platform = "ready"
    /\ LET resolved == resolveAdapter("Balance", "checkBalance", FALSE)
           request == createAdapterContext(requestor, adapters[resolved.adapter],
                                           resolved.apiKey, nextUuid)
       IN  IF resolved.kind # "resolved"
              \/ "checkBalance" \notin adapters[resolved.adapter].handlers
           THEN /\ opCalls' = Append(opCalls,
                     Call("checkBalance", requestor, "fulfilled", 0, NoRequest,
                          zeroBalanceCompletion(requestor, nextUuid), <<>>))
                /\ UNCHANGED invocations
           ELSE /\ opCalls' = Append(opCalls,
                     Call("checkBalance", requestor, "pending", resolved.adapter,
                          request, NoCompletion, <<>>))
                /\ invocations' = Append(invocations,
                     Invocation(Len(opCalls) + 1, resolved.adapter, "checkBalance",
                                request))
    /\ nextUuid' = nextUuid + 1
    /\ UNCHANGED <<canHandleCalls, adapters, apiKeys, defaultAdapterByCapability,
                   platform, currentBalance>>
    /\ UNCHANGED <<httpVars, clientVars>>

CheckBalance ==
    \E requestor \in Requestors :
        /\ Len(opCalls) < MaxCalls
        /\ routeCheckBalance(requestor)

\* The handler invocation that a pending call awaits.
invocationOf(k) == CHOOSE j \in 1..Len(invocations) : invocations[j].call = k

\* Variant: a fulfilled checkBalance call refreshes currentBalance.
HandlerFulfils_RefreshesBalance ==
    \E k \in 1..Len(opCalls) :
        /\ opCalls[k].state = "pending"
        /\ \E c \in HandlerCompletions(adapters[opCalls[k].adapter].id, opCalls[k].op,
                                       opCalls[k].request) :
              /\ invocations' = [invocations EXCEPT
                                     ![invocationOf(k)].outcome = OutcomeFulfilled(c)]
              /\ opCalls' = [opCalls EXCEPT ![k] = settleCall(@, OutcomeFulfilled(c))]
        /\ UNCHANGED <<canHandleCalls, adapters, apiKeys, defaultAdapterByCapability,
                       platform, nextUuid>>
        /\ currentBalance' = IF opCalls[k].op = "checkBalance"
                             THEN opCalls'[k].completion.balance
                             ELSE currentBalance
        /\ UNCHANGED <<httpVars, clientVars>>

\* The handler of a pending call fulfils: the platform operation returns the
\* handler's promise, so the call settles with the handler's completion.
HandlerFulfils ==
    \E k \in 1..Len(opCalls) :
        /\ opCalls[k].state = "pending"
        /\ \E c \in HandlerCompletions(adapters[opCalls[k].adapter].id, opCalls[k].op,
                                       opCalls[k].request) :
              /\ invocations' = [invocations EXCEPT
                                     ![invocationOf(k)].outcome = OutcomeFulfilled(c)]
              /\ opCalls' = [opCalls EXCEPT ![k] = settleCall(@, OutcomeFulfilled(c))]
        /\ UNCHANGED <<canHandleCalls, adapters, apiKeys, defaultAdapterByCapability,
                       platform, currentBalance, nextUuid>>
        /\ UNCHANGED <<httpVars, clientVars>>

\* The handler of a pending call rejects.
HandlerRejects ==
    \E k \in 1..Len(opCalls) :
        /\ opCalls[k].state = "pending"
        /\ \E e \in HandlerErrors :
              /\ invocations' = [invocations EXCEPT
                                     ![invocationOf(k)].outcome = OutcomeRejected(e)]
              /\ opCalls' = [opCalls EXCEPT ![k] = settleCall(@, OutcomeRejected(e))]
        /\ UNCHANGED <<canHandleCalls, adapters, apiKeys, defaultAdapterByCapability,
                       platform, currentBalance, nextUuid>>
        /\ UNCHANGED <<httpVars, clientVars>>

\* platform.canHandle(requestor, capabilities) is called: it runs to its
\* return or to the first await of an adapter's own canHandle.  The callers
\* of one platform ask about one list of capabilities, again and again.
CanHandle(capabilities) ==
    /\ platform = "ready"
    /\ Len(canHandleCalls) + Len(opCalls) < MaxProbes
    /\ \A p \in 1..Len(canHandleCalls) : canHandleCalls[p].capabilities = capabilities
    /\ canHandleCalls' = Append(canHandleCalls, canHandle(capabilities))
    /\ UNCHANGED <<adapters, apiKeys, defaultAdapterByCapability, platform,
                   currentBalance, opCalls, invocations, nextUuid>>
    /\ UNCHANGED <<httpVars, clientVars>>

\* The adapter's own canHandle that a pending call awaits has answered: the
\* call returns false on a refusal, and otherwise goes on with the next
\* capability, reading the configuration as it is now.
CanHandleAnswers ==
    \E p \in 1..Len(canHandleCalls) :
        LET call == canHandleCalls[p]
            question == call.asked[Len(call.asked)]
            accepted == adapterAccepts(adapters[question.adapter], question.capabilities)
            next == IF accepted
                    THEN canHandleLoop(call.capabilities, call.at + 1, call.asked)
                    ELSE ProbeSettled(call.capabilities, FALSE, call.asked)
        IN  /\ call.state = "pending"
            /\ canHandleCalls' = [canHandleCalls EXCEPT
                                     ![p] = [next EXCEPT !.stale = call.stale]]
            /\ UNCHANGED <<adapters, apiKeys, defaultAdapterByCapability, platform,
                           currentBalance, opCalls, invocations, nextUuid>>
            /\ UNCHANGED <<httpVars, clientVars>>

\* The owner of props changes props.apiKeys, which the platform reads anew
\* whenever it resolves a key.
ChangeApiKeys ==
    /\ platform = "ready"
    /\ \E table \in ApiKeyTables \ {apiKeys} :
          /\ \E id \in DOMAIN apiKeys :
                \A other \in DOMAIN apiKeys \ {id} : table[other] = apiKeys[other]
          /\ apiKeys' = table
    /\ canHandleCalls' = [p \in 1..Len(canHandleCalls) |->
                             [canHandleCalls[p] EXCEPT !.stale = TRUE]]
    /\ UNCHANGED <<adapters, defaultAdapterByCapability, platform,
                   currentBalance, opCalls, invocations, nextUuid>>
    /\ UNCHANGED <<httpVars, clientVars>>

RouteNext ==
    \/ Construct
    \/ ConstructSettles
    \/ ChatWithAI
    \/ SynthesizeSpeech
    \/ TranscribeSpeech
    \/ GenerateImage
    \/ ProduceVideo
    \/ GenerateModel
    \/ CheckBalance
    \/ HandlerFulfils
    \/ HandlerRejects

----------------------------------------------------------------------------
(* Video provider adapters: values                                         *)
(* createHttpVideoProviderAdapter (video-provider-adapter.ts), the         *)
(* Pixelverse adapter built on it (pixelverse-adapter.ts) and              *)
(* createVideoProviderPlatform.  A network call is answered by the         *)
(* environment: the injected fetchFn answers from a script, call by call,  *)
(* the global fetch answers anything.                                      *)

MaxPolls == 3

DefaultPollDelayMs == 3000
DefaultMaxRetries == 20

\* The JSON body of a provider answer, { Resp: { ... } }: each field of Resp
\* may be missing (None; "" for the url).
JsonBody(id, status, url, creditMonthly, creditPackage) ==
    [readable |-> TRUE, json |-> TRUE, id |-> id, status |-> status, url |-> url,
     credit_monthly |-> creditMonthly, credit_package |-> creditPackage]
\* A body that is not JSON (the bytes of an image).
ImageBody ==
    [readable |-> TRUE, json |-> FALSE, id |-> None, status |-> None, url |-> "",
     credit_monthly |-> None, credit_package |-> None]
\* A body whose stream breaks while it is read.
BrokenBody == [ImageBody EXCEPT !.readable = FALSE]

VideoResponse(status, body) == [settles |-> "resolves", status |-> status, body |-> body]
\* fetch rejects (the network is down).
NetworkFailure == [settles |-> "rejects", status |-> 0, body |-> ImageBody]
\* No response is at hand.
NoVideoResponse == [settles |-> "none", status |-> 0, body |-> ImageBody]

VideoError(message, status) == [message |-> message, status |-> status]
NoVideoError == VideoError("none", 0)

NoVideoValue == [videoId |-> 0, url |-> "", balance |-> 0]
VideoPending == [kind |-> "pending", value |-> NoVideoValue, error |-> NoVideoError]
VideoFulfilled(value) == [kind |-> "fulfilled", value |-> value, error |-> NoVideoError]
VideoRejected(error) == [kind |-> "rejected", value |-> NoVideoValue, error |-> error]

\* What an awaited helper gave: a value, or the error it threw.
Threw(error) == [threw |-> TRUE, error |-> error, data |-> ImageBody, n |-> 0]
Gave(data) == [threw |-> FALSE, error |-> NoVideoError, data |-> data, n |-> 0]
GaveNumber(n) == [threw |-> FALSE, error |-> NoVideoError, data |-> ImageBody, n |-> n]

\* The promise of an async function that another one awaits
\* (waitForCompletion in produceVideo, checkBalance in
\* createVideoProviderPlatform): not called, running, or settled.
InnerNone == [state |-> "none", videoUrl |-> "", balance |-> 0, error |-> NoVideoError]
InnerRunning == [InnerNone EXCEPT !.state = "running"]
InnerReturnedUrl(videoUrl) == [InnerNone EXCEPT !.state = "returned", !.videoUrl = videoUrl]
InnerReturnedBalance(balance) == [InnerNone EXCEPT !.state = "returned", !.balance = balance]
InnerThrew(error) == [InnerNone EXCEPT !.state = "threw", !.error = error]

\* Paths of the provider, and the URL of the image to animate.
UploadImagePath == [kind |-> "upload", id |-> 0]
GenerateVideoPath == [kind |-> "generate", id |-> 0]
getVideoResultPath(videoId) == [kind |-> "result", id |-> videoId]
GetBalancePath == [kind |-> "balance", id |-> 0]
ImageUrl == [kind |-> "image", id |-> 0]

\* new URL(videoUrl) accepts absolute URLs only.
CdnVideoUrl == "https://cdn.pixelverse.ai/video.mp4"
RelativeVideoUrl == "video.mp4"
isAbsoluteUrl(url) == url = CdnVideoUrl

\* response.json(): the read of the body, then its parse.
json(response) ==
    IF ~response.body.readable THEN Threw(VideoError("TypeError", 0))
    ELSE IF ~response.body.json THEN Threw(VideoError("SyntaxError", 0))
    ELSE Gave(response.body)

\* result.blob(): the read of the body.
blob(response) ==
    IF ~response.body.readable THEN Threw(VideoError("TypeError", 0))
    ELSE Gave(response.body)

\* fetchJson when its fetchFn(path, init) call has settled: it throws, or
\* goes on to read the body.
fetchJsonChecks(response) ==
    IF response.settles = "rejects" THEN Threw(VideoError("TypeError", 0))
    ELSE IF ~ok(response)
        THEN Threw(VideoError("Provider request failed", response.status))
    ELSE Gave(response.body)

\* What fetchJson gives in the end on a response.
fetchJson(response) ==
    IF fetchJsonChecks(response).threw THEN fetchJsonChecks(response) ELSE json(response)

\* asNumber(resp.id); None stands for undefined.
defaultUploadMapper(data) == data.id
defaultVideoIdMapper(data) == data.id

requireJson(data, label, mapped) ==
    IF ~mapped.set \/ mapped.v = 0
    THEN Threw(VideoError(label, 0))
    ELSE GaveNumber(mapped.v)

InvalidUpload == "Invalid image upload response."
InvalidGeneration == "Invalid video generation response."

defaultResultMapper(data) ==
    IF data.status = Some(1) /\ data.url # ""
    THEN [state |-> "completed", videoUrl |-> data.url]
    ELSE IF data.status = Some(-1)
    THEN [state |-> "failed", videoUrl |-> ""]
    ELSE [state |-> "pending", videoUrl |-> ""]

defaultBalanceMapper(data) ==
    [monthlyCredit |-> Coalesce(data.credit_monthly, 0),
     packageCredit |-> Coalesce(data.credit_package, 0)]

\* defaultHeaders(context)["API-KEY"]
defaultHeaders(apiKey) == apiKey

\* A call made without an init: no header at all.
NoHeaders == <<"<no API-KEY header>">>

----------------------------------------------------------------------------
(* Video provider adapters: inputs of the model                            *)

IdAnswer(id) == VideoResponse(200, JsonBody(id, None, "", None, None))
StatusAnswer(status, url) == VideoResponse(200, JsonBody(None, Some(status), url, None, None))
BalanceAnswer(monthly, package) ==
    VideoResponse(200, JsonBody(None, None, "", Some(monthly), Some(package)))
ErrorAnswer(status) == VideoResponse(status, JsonBody(None, None, "", None, None))
ImageAnswer == VideoResponse(200, ImageBody)
BrokenAnswer == VideoResponse(200, BrokenBody)

PollAnswers ==
    {StatusAnswer(0, ""), StatusAnswer(1, CdnVideoUrl), StatusAnswer(1, ""),
     StatusAnswer(1, RelativeVideoUrl), StatusAnswer(-1, "")}

Answers ==
    {ErrorAnswer(503), ErrorAnswer(400), IdAnswer(Some(101)), IdAnswer(Some(202)),
     IdAnswer(Some(0)), IdAnswer(None), ImageAnswer, BrokenAnswer,
     BalanceAnswer(8, 12), NetworkFailure}
      \cup PollAnswers

PollScripts ==
    {<<a>> : a \in PollAnswers}
      \cup {<<a, b>> : a \in PollAnswers, b \in PollAnswers}
      \cup {<<a, b, c>> : a \in PollAnswers, b \in PollAnswers, c \in PollAnswers}

\* The answers the injected fetchFn gives, in the order of its calls; once
\* they are used up it rejects.
FetchScripts ==
    {<<>>}
      \cup {<<a>> : a \in Answers}
      \cup {<<a, b>> : a \in Answers, b \in Answers}
      \cup {<<IdAnswer(Some(101)), IdAnswer(Some(202))>> \o polls : polls \in PollScripts}
      \cup {<<ImageAnswer, IdAnswer(Some(101)), IdAnswer(Some(202))>> \o polls :
              polls \in PollScripts}

\* The global fetch answers as the network pleases.
GlobalAnswers == Answers

VideoApiKeys == {<<>>, <<" ">>, <<"k">>}
HttpPolicies == {None, Some(1), Some(2), Some(3)}

\* polling.maxRetries, in halves: 0, 1, ..., MaxPolls and MaxPolls - 1/2
\* (the option is a number, used as it comes); with an injected fetchFn,
\* whose answers run out, it is left out as well.
PollingMaxRetriesX2(fetchFn) ==
    {Some(2 * n) : n \in 0..MaxPolls} \cup {Some(2 * MaxPolls - 1)}
      \cup (IF fetchFn THEN {None} ELSE {})

VideoJob(program, httpPolicy, fetchFn, image, apiKey, maxRetriesX2, pollDelayMs, getBalance) ==
    [program |-> program, httpPolicy |-> httpPolicy, fetchFn |-> fetchFn,
     image |-> image, apiKey |-> apiKey, maxRetriesX2 |-> maxRetriesX2,
     pollDelayMs |-> pollDelayMs, getBalancePath |-> getBalance]

\* adapter.generateVideo({imageId: 1, prompt}, {apiKey, fetchFn}) on an
\* adapter made with httpPolicy: {maxAttempts}.
GenerateVideoJobs ==
    {VideoJob("generateVideo", p, f, "File", k, None, None, FALSE) :
        p \in HttpPolicies, f \in BOOLEAN, k \in VideoApiKeys}

\* createPixelverseAdapter({fetchFn, httpPolicy, polling: {maxRetries,
\* delayMs}}).produceVideo({image, apiKey: "k", ...}), with polling.delayMs
\* left out or 0.
ProduceVideoJobs ==
    UNION {{VideoJob("produceVideo", p, f, i, <<"k">>, n, d, TRUE) :
              p \in {None, Some(1)}, i \in {"File", "URL"},
              n \in PollingMaxRetriesX2(f), d \in {None, Some(0)}} : f \in BOOLEAN}

\* createPixelverseAdapter({fetchFn}).checkBalance({apiKey, ...}): the HTTP
\* adapter under it always has a getBalancePath.
CheckBalanceJobs ==
    {VideoJob("checkBalance", None, f, "File", k, None, None, TRUE) :
        f \in BOOLEAN, k \in VideoApiKeys}

\* createVideoProviderPlatform(userId, {apiKey, adapter, polling}), the
\* adapter an HTTP video adapter with or without a getBalancePath; and, on
\* the platform it returned, produceVideo(requestorId, prompt, image: URL,
\* context, model) and checkBalance(requestorId).  The platform hands no
\* fetchFn to its adapter.
PlatformJobs ==
    {VideoJob("createVideoProviderPlatform", None, FALSE, "File", k, None, None, b) :
        k \in VideoApiKeys, b \in BOOLEAN}
      \cup {VideoJob("platform.checkBalance", None, FALSE, "File", <<"k">>, None, None, b) :
              b \in BOOLEAN}
      \cup {VideoJob("platform.produceVideo", None, FALSE, "URL", <<"k">>, n, d, FALSE) :
              n \in PollingMaxRetriesX2(FALSE), d \in {None, Some(0)}}

VideoJobs == GenerateVideoJobs \cup ProduceVideoJobs \cup CheckBalanceJobs \cup PlatformJobs

ProduceVideoPrograms == {"produceVideo", "platform.produceVideo"}

\* Where the call is at its first await.
firstStep(job) ==
    CASE job.program = "generateVideo" -> "generate"
      [] job.program \in ProduceVideoPrograms ->
            IF job.image = "URL" THEN "download" ELSE "upload"
      [] OTHER -> "balance"

\* awaiting: "none", "fetch" (a fetch call is made and not answered) or
\* "body" (the response is there and its body is being read).
NoVideoLocals == [imageId |-> 0, videoId |-> 0, attempt |-> 0, delays |-> 0,
                  waitedMs |-> 0, polled |-> <<>>, awaiting |-> "none",
                  response |-> NoVideoResponse, awaited |-> InnerNone]

VideoInit ==
    /\ videoJob \in VideoJobs
    /\ fetchScript \in (IF videoJob.fetchFn THEN FetchScripts ELSE {<<>>})
    /\ netCalls = <<>>
    /\ videoPc = firstStep(videoJob)
    /\ videoLocals = [NoVideoLocals EXCEPT
                        !.imageId = IF videoJob.program = "generateVideo" THEN 1 ELSE 0,
                        !.awaited = IF videoJob.program = "createVideoProviderPlatform"
                                    THEN InnerRunning ELSE InnerNone]
    /\ videoResult = VideoPending

----------------------------------------------------------------------------
(* createHttpVideoProviderAdapter, createPixelverseAdapter and             *)
(* createVideoProviderPlatform                                             *)

\* context.fetchFn ?? fetch
contextFetch == IF videoJob.fetchFn THEN "fetchFn" ELSE "fetch"

\* The calls made on the injected fetchFn.
fetchFnCalls == SelectSeq(netCalls, LAMBDA c : c.via = "fetchFn")

\* What the injected fetchFn answers to the call it has last received.
scripted ==
    IF Len(fetchFnCalls) <= Len(fetchScript)
    THEN fetchScript[Len(fetchFnCalls)]
    ELSE NetworkFailure

NetworkSteps == {"download", "upload", "generate", "poll", "balance"}

\* The fetch call of each step: the function called, the path, the method,
\* the API-KEY header and the img_id of the body.
Request(step) ==
    CASE step = "download" ->
            [via |-> "fetch", path |-> ImageUrl, method |-> "GET",
             apiKey |-> NoHeaders, img_id |-> 0]
      [] step = "upload" ->
            [via |-> contextFetch, path |-> UploadImagePath, method |-> "POST",
             apiKey |-> defaultHeaders(videoJob.apiKey), img_id |-> 0]
      [] step = "generate" ->
            [via |-> contextFetch, path |-> GenerateVideoPath, method |-> "POST",
             apiKey |-> defaultHeaders(videoJob.apiKey), img_id |-> videoLocals.imageId]
      [] step = "poll" ->
            [via |-> contextFetch, path |-> getVideoResultPath(videoLocals.videoId),
             method |-> "GET", apiKey |-> defaultHeaders(videoJob.apiKey), img_id |-> 0]
      [] OTHER ->
            [via |-> contextFetch, path |-> GetBalancePath, method |-> "GET",
             apiKey |-> defaultHeaders(videoJob.apiKey), img_id |-> 0]

settleVideo(outcome) ==
    /\ videoResult' = outcome
    /\ videoPc' = "done"

\* waitForCompletion or the eager checkBalance settles; the function that
\* awaits it resumes in a later step.
innerSettles(locals, outcome) ==
    /\ videoLocals' = [locals EXCEPT !.awaited = outcome]
    /\ videoPc' = "resume"
    /\ UNCHANGED videoResult

\* The step under way throws: inside waitForCompletion and inside the eager
\* checkBalance that is the end of the inner function, elsewhere the call is
\* rejected with the error.
stepThrows(locals, error) ==
    IF videoPc = "poll"
         \/ (videoPc = "balance" /\ videoJob.program = "createVideoProviderPlatform")
    THEN innerSettles(locals, InnerThrew(error))
    ELSE settleVideo(VideoRejected(error)) /\ videoLocals' = locals

\* The locals once the body of the response at hand has been read.
bodyRead == [videoLocals EXCEPT !.awaiting = "none", !.response = NoVideoResponse]

\* const maxRetries = options.polling?.maxRetries ?? 20, in halves.
maxRetriesX2 == Coalesce(videoJob.maxRetriesX2, 2 * DefaultMaxRetries)

\* const delayMs = options.polling?.delayMs ?? 3000
pollDelayMs == Coalesce(videoJob.pollDelayMs, DefaultPollDelayMs)

onPlatform == videoJob.program = "platform.produceVideo"

timedOutMessage ==
    IF onPlatform THEN "Timed out waiting for provider video completion."
    ELSE "Timed out waiting for Pixelverse video completion."

failedMessage ==
    IF onPlatform THEN "Video generation failed in provider adapter."
    ELSE "Pixelverse video generation failed."

\* Variant: the loop of waitForCompletion runs once more.
waitForCompletionContinues_OneMore(made) == 2 * made <= maxRetriesX2

\* for (let attempt = 0; attempt < maxRetries; attempt += 1): the condition
\* on made, the value of attempt.
waitForCompletionContinues(made) == 2 * made < maxRetriesX2

\* A step calls its fetch function: fetch(image.toString()) in uploadImage,
\* fetchFn(path, init) in fetchJson.  The call is made; its promise is
\* pending.
CallFetch ==
    /\ videoPc \in NetworkSteps
    /\ videoLocals.awaiting = "none"
    /\ videoPc = "balance" => videoJob.getBalancePath
    /\ netCalls' = Append(netCalls, Request(videoPc))
    /\ videoLocals' = [videoLocals EXCEPT !.awaiting = "fetch"]
    /\ UNCHANGED <<videoJob, fetchScript, videoPc, videoResult>>
    /\ UNCHANGED <<httpVars, routeVars, chatVars, openaiVars>>

\* The pending fetch call settles.  A rejection is thrown on; fetchJson
\* throws on a response that is not ok (the download of the image does not
\* look); otherwise the read of the body begins.
FetchSettles(response) ==
    /\ videoLocals.awaiting = "fetch"
    /\ response \in (IF netCalls[Len(netCalls)].via = "fetchFn"
                     THEN {scripted} ELSE GlobalAnswers)
    /\ LET checked == IF videoPc = "download" /\ response.settles = "resolves"
                      THEN Gave(response.body)
                      ELSE fetchJsonChecks(response)
           locals == [videoLocals EXCEPT
                        !.polled = IF videoPc = "poll" THEN Append(@, response) ELSE @]
       IN  IF checked.threw
           THEN stepThrows([locals EXCEPT !.awaiting = "none"], checked.error)
           ELSE /\ videoLocals' = [locals EXCEPT !.awaiting = "body",
                                                 !.response = response]
                /\ UNCHANGED <<videoPc, videoResult>>
    /\ UNCHANGED <<videoJob, fetchScript, netCalls>>
    /\ UNCHANGED <<httpVars, routeVars, chatVars, openaiVars>>

\* uploadImage, URL image: result.blob() settles and uploadImage goes on to
\* its fetchJson call.
DownloadImage ==
    /\ videoPc = "download"
    /\ videoLocals.awaiting = "body"
    /\ LET data == blob(videoLocals.response)
       IN  IF data.threw
           THEN stepThrows(bodyRead, data.error)
           ELSE /\ videoLocals' = bodyRead
                /\ videoPc' = "upload"
                /\ UNCHANGED videoResult
    /\ UNCHANGED <<videoJob, fetchScript, netCalls>>
    /\ UNCHANGED <<httpVars, routeVars, chatVars, openaiVars>>

\* uploadImage once response.json() has settled: requireJson gives the image
\* id and produceVideo goes on to generateVideo.
UploadImage ==
    /\ videoPc = "upload"
    /\ videoLocals.awaiting = "body"
    /\ LET data == json(videoLocals.response)
           imageId == requireJson(data.data, InvalidUpload, defaultUploadMapper(data.data))
       IN  IF data.threw
           THEN stepThrows(bodyRead, data.error)
           ELSE IF imageId.threw
           THEN stepThrows(bodyRead, imageId.error)
           ELSE /\ videoLocals' = [bodyRead EXCEPT !.imageId = imageId.n]
                /\ videoPc' = "generate"
                /\ UNCHANGED videoResult
    /\ UNCHANGED <<videoJob, fetchScript, netCalls>>
    /\ UNCHANGED <<httpVars, routeVars, chatVars, openaiVars>>

\* generateVideo once response.json() has settled: requireJson gives the
\* video id; in produceVideo, waitForCompletion is entered and tests its
\* loop condition for the first time.
GenerateVideo ==
    /\ videoPc = "generate"
    /\ videoLocals.awaiting = "body"
    /\ LET data == json(videoLocals.response)
           videoId == requireJson(data.data, InvalidGeneration,
                                  defaultVideoIdMapper(data.data))
           locals == [bodyRead EXCEPT !.videoId = videoId.n]
       IN  IF data.threw
           THEN stepThrows(bodyRead, data.error)
           ELSE IF videoId.threw
           THEN stepThrows(bodyRead, videoId.error)
           ELSE IF videoJob.program = "generateVideo"
           THEN /\ settleVideo(VideoFulfilled([NoVideoValue EXCEPT
                                                 !.videoId = videoId.n]))
                /\ videoLocals' = locals
           ELSE IF waitForCompletionContinues(0)
           THEN /\ videoLocals' = [locals EXCEPT !.awaited = InnerRunning]
                /\ videoPc' = "delay"
                /\ UNCHANGED videoResult
           ELSE innerSettles(locals, InnerThrew(VideoError(timedOutMessage, 0)))
    /\ UNCHANGED <<videoJob, fetchScript, netCalls>>
    /\ UNCHANGED <<httpVars, routeVars, chatVars, openaiVars>>

\* A round of waitForCompletion begins: the timer of
\* await new Promise((resolve) => setTimeout(resolve, delayMs)) fires.
PollDelay ==
    /\ videoPc = "delay"
    /\ videoPc' = "poll"
    /\ videoLocals' = [videoLocals EXCEPT !.delays = @ + 1,
                                          !.waitedMs = @ + pollDelayMs]
    /\ UNCHANGED <<videoJob, fetchScript, netCalls, videoResult>>
    /\ UNCHANGED <<httpVars, routeVars, chatVars, openaiVars>>

\* The rest of a round of waitForCompletion, once getVideoResult has read
\* its response: the verdict on the result, then attempt += 1 and the loop
\* condition.
PollResult ==
    /\ videoPc = "poll"
    /\ videoLocals.awaiting = "body"
    /\ LET data == json(videoLocals.response)
           verdict == defaultResultMapper(data.data)
           next == [bodyRead EXCEPT !.attempt = @ + 1]
       IN  IF data.threw
           THEN stepThrows(bodyRead, data.error)
           ELSE IF verdict.state = "completed" /\ verdict.videoUrl # ""
           THEN innerSettles(bodyRead, InnerReturnedUrl(verdict.videoUrl))
           ELSE IF verdict.state = "failed"
           THEN innerSettles(bodyRead, InnerThrew(VideoError(failedMessage, 0)))
           ELSE IF waitForCompletionContinues(next.attempt)
           THEN /\ videoLocals' = next
                /\ videoPc' = "delay"
                /\ UNCHANGED videoResult
           ELSE innerSettles(next, InnerThrew(VideoError(timedOutMessage, 0)))
    /\ UNCHANGED <<videoJob, fetchScript, netCalls>>
    /\ UNCHANGED <<httpVars, routeVars, chatVars, openaiVars>>

\* produceVideo resumes from await waitForCompletion(...): the error is
\* thrown on, the URL goes through new URL(videoUrl).  The Pixelverse
\* adapter reports the provider's video id in the usage, the platform does
\* not.
ProduceVideoResumes ==
    /\ videoPc = "resume"
    /\ videoJob.program \in ProduceVideoPrograms
    /\ LET awaited == videoLocals.awaited
       IN  IF awaited.state = "threw"
           THEN settleVideo(VideoRejected(awaited.error))
           ELSE IF isAbsoluteUrl(awaited.videoUrl)
           THEN settleVideo(VideoFulfilled([NoVideoValue EXCEPT
                    !.videoId = IF onPlatform THEN 0 ELSE videoLocals.videoId,
                    !.url = awaited.videoUrl]))
           ELSE settleVideo(VideoRejected(VideoError("Invalid URL", 0)))
    /\ UNCHANGED <<videoJob, fetchScript, netCalls, videoLocals>>
    /\ UNCHANGED <<httpVars, routeVars, chatVars, openaiVars>>

\* checkBalance has its credits: the eager one of
\* createVideoProviderPlatform settles for the construction to resume, one
\* called on the platform or on the Pixelverse adapter settles the call.
checkBalanceReturns(locals, providerBalance) ==
    LET balance == providerBalance.monthlyCredit + providerBalance.packageCredit
    IN  IF videoJob.program = "createVideoProviderPlatform"
        THEN innerSettles(locals, InnerReturnedBalance(balance))
        ELSE /\ settleVideo(VideoFulfilled([NoVideoValue EXCEPT !.balance = balance]))
             /\ videoLocals' = locals

\* checkBalance once getBalance has read its response.
GetBalance ==
    /\ videoPc = "balance"
    /\ videoLocals.awaiting = "body"
    /\ LET data == json(videoLocals.response)
       IN  IF data.threw
           THEN stepThrows(bodyRead, data.error)
           ELSE checkBalanceReturns(bodyRead, defaultBalanceMapper(data.data))
    /\ UNCHANGED <<videoJob, fetchScript, netCalls>>
    /\ UNCHANGED <<httpVars, routeVars, chatVars, openaiVars>>

\* checkBalance on an adapter without getBalance: zero credits, and no call.
ZeroBalance ==
    /\ videoPc = "balance"
    /\ videoLocals.awaiting = "none"
    /\ ~videoJob.getBalancePath
    /\ checkBalanceReturns(videoLocals, [monthlyCredit |-> 0, packageCredit |-> 0])
    /\ UNCHANGED <<videoJob, fetchScript, netCalls>>
    /\ UNCHANGED <<httpVars, routeVars, chatVars, openaiVars>>

\* createVideoProviderPlatform resumes from await checkBalance(userId): the
\* error is thrown on, the balance becomes currentBalance of the platform
\* returned.
PlatformReturned ==
    /\ videoPc = "resume"
    /\ videoJob.program = "createVideoProviderPlatform"
    /\ LET awaited == videoLocals.awaited
       IN  IF awaited.state = "threw"
           THEN settleVideo(VideoRejected(awaited.error))
           ELSE settleVideo(VideoFulfilled([NoVideoValue EXCEPT
                                              !.balance = awaited.balance]))
    /\ UNCHANGED <<videoJob, fetchScript, netCalls, videoLocals>>
    /\ UNCHANGED <<httpVars, routeVars, chatVars, openaiVars>>

----------------------------------------------------------------------------
(* The chatbot client: values                                              *)
(* chatWithAI posts a message to the chatbot endpoint; strings are         *)
(* sequences of characters.                                                *)

DEFAULT_CSRF_COOKIE_NAME == <<"c", "s", "r", "f", "-", "t", "o", "k", "e", "n">>

\* A string that may be undefined.
Undefined == [defined |-> FALSE, value |-> <<>>]
Defined(str) == [defined |-> TRUE, value |-> str]
\* The string is truthy: neither undefined nor "".
truthy(str) == str.defined /\ str.value # <<>>

startsWith(str, prefix) ==
    Len(str) >= Len(prefix) /\ SubSeq(str, 1, Len(prefix)) = prefix

\* String.prototype.split on a one-character separator.
RECURSIVE split(_, _)
split(str, separator) ==
    IF \A i \in 1..Len(str) : str[i] # separator
    THEN <<str>>
    ELSE LET k == CHOOSE i \in 1..Len(str) :
                    str[i] = separator /\ \A j \in 1..(i - 1) : str[j] # separator
         IN  <<SubSeq(str, 1, k - 1)>> \o split(SubSeq(str, k + 1, Len(str)), separator)

HexDigits ==
    {"0", "1", "2", "3", "4", "5", "6", "7", "8", "9",
     "A", "B", "C", "D", "E", "F", "a", "b", "c", "d", "e", "f"}
HexValue(c) ==
    CASE c = "0" -> 0 [] c = "1" -> 1 [] c = "2" -> 2 [] c = "3" -> 3
      [] c = "4" -> 4 [] c = "5" -> 5 [] c = "6" -> 6 [] c = "7" -> 7
      [] c = "8" -> 8 [] c = "9" -> 9 [] c \in {"A", "a"} -> 10
      [] c \in {"B", "b"} -> 11 [] c \in {"C", "c"} -> 12
      [] c \in {"D", "d"} -> 13 [] c \in {"E", "e"} -> 14 [] OTHER -> 15
\* String.fromCharCode on the codes the model's cookies escape.
fromCharCode(code) ==
    CASE code = 61 -> "=" [] code = 32 -> " " [] code = 59 -> ";"
      [] code = 37 -> "%" [] code = 65 -> "A" [] OTHER -> "?"

\* decodeURIComponent: every %XY escape is replaced by the character it
\* encodes; an escape that is cut short, is not hexadecimal or is a lone
\* byte of a multi-byte sequence makes it throw.
RECURSIVE decodeURIComponent(_)
decodeURIComponent(str) ==
    IF str = <<>> THEN [threw |-> FALSE, text |-> <<>>]
    ELSE IF str[1] # "%"
    THEN LET rest == decodeURIComponent(Tail(str))
         IN  [threw |-> rest.threw, text |-> <<str[1]>> \o rest.text]
    ELSE IF Len(str) < 3 \/ str[2] \notin HexDigits \/ str[3] \notin HexDigits
    THEN [threw |-> TRUE, text |-> <<>>]
    ELSE LET code == 16 * HexValue(str[2]) + HexValue(str[3])
             rest == decodeURIComponent(SubSeq(str, 4, Len(str)))
         IN  IF code >= 128 THEN [threw |-> TRUE, text |-> <<>>]
             ELSE [threw |-> rest.threw, text |-> <<fromCharCode(code)>> \o rest.text]

\* readCookie(cookieName) when document.cookie is cookie; hasDocument says
\* whether there is a document at all.
readCookie(hasDocument, cookie, cookieName) ==
    IF ~hasDocument THEN Undefined
    ELSE LET parts == split(cookie, ";")
             entries == [i \in 1..Len(parts) |-> trim(parts[i])]
             hits == {i \in 1..Len(entries) :
                        startsWith(entries[i], cookieName \o <<"=">>)}
         IN  IF hits = {} THEN Undefined
             ELSE LET match == entries[CHOOSE i \in hits : \A j \in hits : i <= j]
                      value == split(match, "=")[2]
                      decoded == decodeURIComponent(value)
                  IN  Defined(IF decoded.threw THEN value ELSE decoded.text)

ChatPending == [kind |-> "pending", error |-> "none", status |-> 0]
ChatFulfilled == [kind |-> "fulfilled", error |-> "none", status |-> 0]
\* A rejection: the message of the error (the name of a built-in error),
\* and the status when it is a ChatbotApiError.
ChatRejected(error, status) == [kind |-> "rejected", error |-> error, status |-> status]

\* A response of the endpoint: status, content-type header and what the
\* body holds: "reply" ({reply, model, usage}), "usage" ({usage}), "message"
\* ({message: "Quota exceeded"}), "object" ({}), "text" (text that is not
\* JSON), "empty" (nothing), or "broken" (the stream fails while read).
ChatResponse(status, contentType, body) ==
    [settles |-> "resolves", status |-> status, contentType |-> contentType,
     body |-> body]
\* The fetcher rejects.
ChatNetworkFailure ==
    [settles |-> "rejects", status |-> 0, contentType |-> "", body |-> "empty"]
NoChatResponse ==
    [settles |-> "none", status |-> 0, contentType |-> "", body |-> "empty"]

\* What parseResponseBody gives: the parsed body, or the error thrown.
ParseThrew(error) == [threw |-> TRUE, error |-> error, body |-> "undefined"]
Parsed(body) == [threw |-> FALSE, error |-> "none", body |-> body]

JsonPayloads == {"reply", "usage", "message", "object"}

\* parseResponseBody: response.json() under a JSON content type, else
\* response.text() and JSON.parse, the text itself when that fails.
parseResponseBody(response) ==
    IF response.body = "broken" THEN ParseThrew("TypeError")
    ELSE IF response.contentType = "application/json"
    THEN IF response.body \in JsonPayloads
         THEN Parsed(response.body)
         ELSE ParseThrew("SyntaxError")
    ELSE IF response.body = "empty" THEN Parsed("undefined")
    ELSE IF response.body \in JsonPayloads THEN Parsed(response.body)
    ELSE Parsed("string")

\* normalizeError(status, body): the message of the payload when it has
\* one, else a message by status.
normalizeError(status, body) ==
    ChatRejected(IF body = "message" THEN "Quota exceeded"
                 ELSE IF status = 401 THEN "You must be signed in to use chatbot."
                 ELSE "Chatbot request failed.",
                 status)

mapToChatbotResponse(body) ==
    IF body = "reply" THEN ChatFulfilled
    ELSE ChatRejected("Invalid chatbot response payload.", 0)

\* A reply payload has a usage too.
mapToChatbotUsageResponse(body) ==
    IF body \in {"usage", "reply"} THEN ChatFulfilled
    ELSE ChatRejected("Invalid chatbot usage payload.", 0)

\* A call on the fetcher: its method and its CSRF header (Undefined: the
\* request has no such header).
ChatCall(httpMethod, csrf) == [method |-> httpMethod, csrf |-> csrf]

----------------------------------------------------------------------------
(* The chatbot client: inputs of the model                                 *)

\* Values of document.cookie.
JarEmpty == <<>>
JarToken ==
    <<"c", "s", "r", "f", "-", "t", "o", "k", "e", "n", "=", "c", "s", "r", "f", "1", "2", "3">>
JarEmptyValue ==
    <<"c", "s", "r", "f", "-", "t", "o", "k", "e", "n", "=">>
JarSecond ==
    <<"t", "h", "e", "m", "e", "=", "d", "a", "r", "k", ";", " ", "c", "s", "r", "f", "-", "t", "o", "k", "e", "n", "=", "c", "s", "r", "f", "1", "2", "3">>
JarEncoded ==
    <<"c", "s", "r", "f", "-", "t", "o", "k", "e", "n", "=", "a", "%", "3", "D", "b">>
JarEquals ==
    <<"c", "s", "r", "f", "-", "t", "o", "k", "e", "n", "=", "a", "=", "b">>
JarMalformed ==
    <<"c", "s", "r", "f", "-", "t", "o", "k", "e", "n", "=", "%", "z", "z">>
JarOtherName ==
    <<"x", "c", "s", "r", "f", "-", "t", "o", "k", "e", "n", "=", "1">>
JarCustom ==
    <<"c", "=", "1", ";", " ", "c", "s", "r", "f", "-", "t", "o", "k", "e", "n", "=", "2">>

CookieJars ==
    {JarEmpty, JarToken, JarEmptyValue, JarSecond, JarEncoded, JarEquals,
     JarMalformed, JarOtherName, JarCustom}

\* The function called, options.bootstrapCsrf, options.csrfCookieName,
\* whether a document exists, and what options.authHeaders is: not given,
\* headers, a function that yields headers or a function that fails.
\* getChatbotUsage reads neither the CSRF options nor the cookies.
ChatOptions ==
    [operation : {"chatWithAI"},
     bootstrapCsrf : {"undefined", "true", "false"},
     csrfCookieName : {Undefined, Defined(<<"c">>)},
     document : BOOLEAN,
     authHeaders : {"undefined", "headers", "function", "throws"},
     fetch : BOOLEAN]
      \cup [operation : {"getChatbotUsage"},
            bootstrapCsrf : {"undefined"},
            csrfCookieName : {Undefined},
            document : BOOLEAN,
            authHeaders : {"undefined", "headers", "function", "throws"},
            fetch : BOOLEAN]

\* What the endpoint answers to the last request of the function, or
\* nothing (the fetcher rejects).
ChatResponses ==
    {ChatNetworkFailure}
      \cup {ChatResponse(status, contentType, body) :
              status \in {200, 401, 429},
              contentType \in {"application/json", "text/plain"},
              body \in JsonPayloads \cup {"text", "empty", "broken"}}

ChatInit ==
    /\ chatOptions \in ChatOptions
    /\ documentCookie \in (IF chatOptions.document THEN CookieJars ELSE {JarEmpty})
    /\ cookieAtCall = documentCookie
    /\ chatCalls = <<>>
    /\ chatPc = "start"
    /\ chatResponse = NoChatResponse
    /\ chatResult = ChatPending

----------------------------------------------------------------------------
(* chatWithAI                                                              *)

\* options.csrfCookieName ?? DEFAULT_CSRF_COOKIE_NAME
csrfCookieName ==
    IF chatOptions.csrfCookieName.defined
    THEN chatOptions.csrfCookieName.value
    ELSE DEFAULT_CSRF_COOKIE_NAME

\* Variant: ensureCsrfToken bootstraps whenever it is not disabled.
needsBootstrap_Always(existingToken) == chatOptions.bootstrapCsrf # "false"

\* ensureCsrfToken goes on to the GET.
needsBootstrap(existingToken) ==
    ~(truthy(existingToken) \/ chatOptions.bootstrapCsrf = "false")

\* The POST of chatWithAI: the CSRF header is there when the token is truthy.
postCall(csrfToken) ==
    ChatCall("POST", IF truthy(csrfToken) THEN csrfToken ELSE Undefined)

settleChat(outcome) ==
    /\ chatResult' = outcome
    /\ chatPc' = "done"

\* chatWithAI or getChatbotUsage up to its first await: resolveFetch, then
\* resolveAuthHeaders is called.
ChatStart ==
    /\ chatPc = "start"
    /\ IF ~chatOptions.fetch
       THEN settleChat(ChatRejected("No fetch implementation", 0))
       ELSE /\ chatPc' = "auth"
            /\ UNCHANGED chatResult
    /\ UNCHANGED <<chatOptions, cookieAtCall, documentCookie, chatCalls, chatResponse>>
    /\ UNCHANGED <<httpVars, routeVars, videoVars, openaiVars>>

\* resolveAuthHeaders settles.  getChatbotUsage sends its GET;
\* in chatWithAI, ensureCsrfToken reads the cookie and either returns the
\* token it found, and the POST is sent, or sends the GET.
AuthSettles ==
    /\ chatPc = "auth"
    /\ IF chatOptions.authHeaders = "throws"
       THEN /\ settleChat(ChatRejected("authHeaders", 0))
            /\ UNCHANGED chatCalls
       ELSE IF chatOptions.operation = "getChatbotUsage"
       THEN /\ chatCalls' = Append(chatCalls, ChatCall("GET", Undefined))
            /\ chatPc' = "usage"
            /\ UNCHANGED chatResult
       ELSE LET existingToken ==
                    readCookie(chatOptions.document, documentCookie, csrfCookieName)
            IN  /\ IF needsBootstrap(existingToken)
                   THEN /\ chatCalls' = Append(chatCalls, ChatCall("GET", Undefined))
                        /\ chatPc' = "get"
                   ELSE /\ chatCalls' = Append(chatCalls, postCall(existingToken))
                        /\ chatPc' = "post"
                /\ UNCHANGED chatResult
    /\ UNCHANGED <<chatOptions, cookieAtCall, documentCookie, chatResponse>>
    /\ UNCHANGED <<httpVars, routeVars, videoVars, openaiVars>>

\* The GET of ensureCsrfToken resolves, the endpoint having set the cookies
\* it wished; the cookie is read again and the POST is sent.
GetResolves(cookie) ==
    /\ chatPc = "get"
    /\ documentCookie' = (IF chatOptions.document THEN cookie ELSE documentCookie)
    /\ chatCalls' = Append(chatCalls,
            postCall(readCookie(chatOptions.document, documentCookie', csrfCookieName)))
    /\ chatPc' = "post"
    /\ UNCHANGED <<chatOptions, cookieAtCall, chatResponse, chatResult>>
    /\ UNCHANGED <<httpVars, routeVars, videoVars, openaiVars>>

\* The GET of ensureCsrfToken rejects.
GetRejects ==
    /\ chatPc = "get"
    /\ settleChat(ChatRejected("TypeError", 0))
    /\ UNCHANGED <<chatOptions, cookieAtCall, documentCookie, chatCalls, chatResponse>>
    /\ UNCHANGED <<httpVars, routeVars, videoVars, openaiVars>>

\* The last request of the function settles: a rejection is thrown on, a
\* response is handed to parseResponseBody, which begins to read its body.
fetcherSettles(response) ==
    /\ IF response.settles = "rejects"
       THEN /\ settleChat(ChatRejected("TypeError", 0))
            /\ UNCHANGED chatResponse
       ELSE /\ chatResponse' = response
            /\ chatPc' = "body"
            /\ UNCHANGED chatResult
    /\ UNCHANGED <<chatOptions, cookieAtCall, documentCookie, chatCalls>>
    /\ UNCHANGED <<httpVars, routeVars, videoVars, openaiVars>>

\* The POST of chatWithAI settles.
PostSettles(response) ==
    /\ chatPc = "post"
    /\ fetcherSettles(response)

\* The GET of getChatbotUsage settles.
UsageSettles(response) ==
    /\ chatPc = "usage"
    /\ fetcherSettles(response)

\* parseResponseBody settles: its error is thrown on; a response that is
\* not ok gives normalizeError; the body of an ok response is mapped.
ParseResponseBodySettles ==
    /\ chatPc = "body"
    /\ LET body == parseResponseBody(chatResponse)
       IN  settleChat(
             IF body.threw THEN ChatRejected(body.error, 0)
             ELSE IF ~ok(chatResponse)
             THEN normalizeError(chatResponse.status, body.body)
             ELSE IF chatOptions.operation = "getChatbotUsage"
             THEN mapToChatbotUsageResponse(body.body)
             ELSE mapToChatbotResponse(body.body))
    /\ chatResponse' = NoChatResponse
    /\ UNCHANGED <<chatOptions, cookieAtCall, documentCookie, chatCalls>>
    /\ UNCHANGED <<httpVars, routeVars, videoVars, openaiVars>>

----------------------------------------------------------------------------
(* The OpenAI adapter                                                      *)

OpenAIOperations ==
    {"chatWithAI", "synthesizeSpeech", "transcribeSpeech", "generateImage",
     "generateModel", "checkBalance"}

OpenAICalls ==
    [ op : OpenAIOperations,
      apiKey : {<<" ", "k">>, <<" ">>},
      traceId : {<<"t">>, <<"u">>} ]

\* options.httpPolicy of the adapter.
OpenAIPolicies ==
    [ maxAttemptsX2 : RawMaxAttemptsX2,
      timeoutMs : {None},
      baseDelayMs : {None, Some(0)},
      maxDelayMs : {None},
      jitterPct : {Some(0)},
      respectRetryAfter : {"undefined", "false"},
      retryableMethods : {NoMethods, {"get"}},
      retryableStatusCodes : {NoCodes} ]

\* An operation of the adapter has been called with a request.
OpenAIInit ==
    /\ openaiCall \in OpenAICalls
    /\ openaiPc = "called"
    /\ openaiResult = OpenAIPending
    /\ sent = <<>>
    /\ rawPolicy \in OpenAIPolicies
    /\ reqInit = [method |-> "POST", signal |-> FALSE]
    /\ abortReason = "none"
    /\ extAborted = FALSE
    /\ pc = "idle"
    /\ attempt = 1
    /\ calls = 0
    /\ factoryCalls = 0
    /\ settlement = NoSettlement
    /\ history = <<>>
    /\ delivered = NoResponse
    /\ lastError = "undefined"
    /\ result = NoResult
    /\ retry = NoRetry
    /\ delayMs = 0
    /\ sleepLeft = 0
    /\ abortedInSleep = FALSE
    /\ timerArmed = FALSE
    /\ listenerOn = FALSE

\* The operation starts: checkBalance answers without the network, the
\* others require the key and hand their request to fetchWithPolicy.
OpenAIStart ==
    /\ openaiPc = "called"
    /\ IF openaiCall.op = "checkBalance"
       THEN /\ openaiPc' = "done"
            /\ openaiResult' = OpenAIFulfilled("balance 0")
            /\ pc' = pc
       ELSE IF requireApiKey(openaiCall.apiKey) = <<>>
       THEN /\ openaiPc' = "done"
            /\ openaiResult' = OpenAIRejected("OpenAI API key is required.")
            /\ pc' = pc
       ELSE /\ openaiPc' = "transport"
            /\ openaiResult' = openaiResult
            /\ pc' = "attempt"
    /\ UNCHANGED <<routeVars, videoVars, chatVars, openaiCall, sent>>
    /\ UNCHANGED <<settlement, rawPolicy, reqInit, abortReason, extAborted, attempt, calls,
                   factoryCalls, history, delivered, lastError, result, retry,
                   delayMs, sleepLeft, abortedInSleep, timerArmed, listenerOn>>

\* The operation resumes from await fetchWithPolicy(...): its error is
\* thrown on; with a response, the read of the body begins
\* (parseResponseBody, or response.arrayBuffer() for synthesized speech).
OpenAIResumes ==
    /\ openaiPc = "transport"
    /\ pc \in {"returned", "rejected"}
    /\ IF result.kind = "error"
       THEN /\ openaiPc' = "done"
            /\ openaiResult' = OpenAIRejected(result.error)
       ELSE /\ openaiPc' = "body"
            /\ UNCHANGED openaiResult
    /\ UNCHANGED <<httpVars, routeVars, videoVars, chatVars, openaiCall, sent>>

\* The body of the response as its read finds it: the content type, and
\* "usable" (JSON that holds what the operation extracts), "relative" (JSON
\* whose image url is "image.png"), "error" ({error: {message: "Rate
\* limit"}}), "object" ({}), "text" (text that is not JSON), "empty", or
\* "broken" (the stream fails while read).
OpenAIBodies ==
    [contentType : {"application/json", "text/plain"},
     content : {"usable", "relative", "error", "object", "text", "empty", "broken"}]

OpenAIJsonContents == {"usable", "relative", "error", "object"}

\* parseResponseBody of the adapter: the parsed body ("string" for text
\* that is not JSON, "undefined" for no text), or the error thrown.
openAIParseResponseBody(body) ==
    IF body.content = "broken" THEN ParseThrew("TypeError")
    ELSE IF body.contentType = "application/json"
    THEN IF body.content \in OpenAIJsonContents
         THEN Parsed(body.content)
         ELSE ParseThrew("SyntaxError")
    ELSE IF body.content = "empty" THEN Parsed("undefined")
    ELSE IF body.content \in OpenAIJsonContents THEN Parsed(body.content)
    ELSE Parsed("string")

\* The fallback message of each operation, without its status.
openAIFallback(op) ==
    CASE op = "chatWithAI" -> "OpenAI chat request failed"
      [] op = "synthesizeSpeech" -> "OpenAI speech synthesis failed"
      [] op = "transcribeSpeech" -> "OpenAI transcription failed"
      [] op = "generateImage" -> "OpenAI image generation failed"
      [] OTHER -> "OpenAI model generation failed"

\* resolveErrorMessage(body, fallback): status 0 marks a message taken from
\* the body.
resolveErrorMessage(parsed, op, status) ==
    IF parsed = "error"
    THEN OpenAIRequestFailed("Rate limit", 0)
    ELSE OpenAIRequestFailed(openAIFallback(op), status)

\* What the operation makes of the parsed body of an ok response:
\* extractChatMessage (and parseGeneratedModel), extractTranscriptionText,
\* extractImageUrl with its new URL(url).
openAIExtract(op, parsed) ==
    CASE op \in {"chatWithAI", "generateModel"} ->
            IF parsed = "usable" THEN OpenAIFulfilled("completion")
            ELSE OpenAIRejected("OpenAI chat response did not contain assistant content.")
      [] op = "transcribeSpeech" ->
            IF parsed = "usable" THEN OpenAIFulfilled("completion")
            ELSE OpenAIRejected("OpenAI transcription response did not contain text.")
      [] OTHER ->
            IF parsed = "usable" THEN OpenAIFulfilled("completion")
            ELSE IF parsed = "relative" THEN OpenAIRejected("TypeError")
            ELSE OpenAIRejected(
                    "OpenAI image generation response did not contain image data.")

\* The read of the body settles.  synthesizeSpeech parses the body of a
\* response that is not ok only, and takes the bytes of an ok one; the
\* others parse the body first, throw on a response that is not ok, and
\* extract their completion from the body.
OpenAISettles(body) ==
    /\ openaiPc = "body"
    /\ openaiPc' = "done"
    /\ LET parsed == openAIParseResponseBody(body)
           response == result.response
       IN  openaiResult' =
             IF openaiCall.op = "synthesizeSpeech" /\ ok(response)
             THEN IF body.content = "broken"
                  THEN OpenAIRejected("TypeError")
                  ELSE OpenAIFulfilled("completion")
             ELSE IF parsed.threw THEN OpenAIRejected(parsed.error)
             ELSE IF ~ok(response)
             THEN resolveErrorMessage(parsed.body, openaiCall.op, response.status)
             ELSE openAIExtract(openaiCall.op, parsed.body)
    /\ UNCHANGED <<httpVars, routeVars, videoVars, chatVars, openaiCall, sent>>

----------------------------------------------------------------------------
(* Specifications                                                          *)

\* The video adapters while another part is studied: no call in progress.
VideoIdle ==
    /\ videoJob = VideoJob("none", None, FALSE, "File", <<>>, None, None, FALSE)
    /\ fetchScript = <<>>
    /\ netCalls = <<>>
    /\ videoPc = "idle"
    /\ videoLocals = NoVideoLocals
    /\ videoResult = VideoPending

\* The chatbot client while another part is studied: no call in progress.
ChatIdle ==
    /\ chatOptions = [operation |-> "chatWithAI", bootstrapCsrf |-> "undefined",
                      csrfCookieName |-> Undefined, document |-> FALSE,
                      authHeaders |-> "undefined", fetch |-> TRUE]
    /\ documentCookie = <<>>
    /\ cookieAtCall = <<>>
    /\ chatCalls = <<>>
    /\ chatPc = "idle"
    /\ chatResponse = NoChatResponse
    /\ chatResult = ChatPending

\* The OpenAI adapter while another part is studied: no operation called.
OpenAIIdle ==
    /\ openaiCall = NoOpenAICall
    /\ openaiPc = "idle"
    /\ openaiResult = OpenAIPending
    /\ sent = <<>>

ClientIdle == VideoIdle /\ ChatIdle /\ OpenAIIdle

\* The platform while the transport is studied: nothing registered, idle.
RouteIdle ==
    /\ adapters = <<>>
    /\ apiKeys = [A |-> KeyAbsent, B |-> KeyAbsent]
    /\ defaultAdapterByCapability = NoDefaults
    /\ platform = "idle"
    /\ currentBalance = 0
    /\ opCalls = <<>>
    /\ invocations = <<>>
    /\ nextUuid = 1
    /\ canHandleCalls = <<>>

\* The transport while the routing engine is studied: no call in progress.
HttpIdle ==
    /\ rawPolicy = [maxAttemptsX2 |-> None, timeoutMs |-> None, baseDelayMs |-> None,
                    maxDelayMs |-> None, jitterPct |-> None,
                    respectRetryAfter |-> "undefined", retryableMethods |-> NoMethods,
                    retryableStatusCodes |-> NoCodes]
    /\ reqInit = [method |-> "undefined", signal |-> FALSE]
    /\ abortReason = "none"
    /\ extAborted = FALSE
    /\ pc = "idle"
    /\ attempt = 1
    /\ calls = 0
    /\ factoryCalls = 0
    /\ settlement = NoSettlement
    /\ history = <<>>
    /\ delivered = NoResponse
    /\ lastError = "undefined"
    /\ result = NoResult
    /\ retry = NoRetry
    /\ delayMs = 0
    /\ sleepLeft = 0
    /\ abortedInSleep = FALSE
    /\ timerArmed = FALSE
    /\ listenerOn = FALSE

Init == HttpInit /\ RouteIdle /\ ClientIdle

\* The steps of a call and of what it waits for, but for the settling of
\* response.body?.cancel().
CallSteps ==
    \/ CallFactory
    \/ FactoryThrows
    \/ AbortDuringFactory
    \/ StartAttempt
    \/ StartAttemptAborted
    \/ LoopExit
    \/ \E response \in Responses(calls) : FetchResponds(response)
    \/ \E error \in TransportErrors : FetchRejects(error)
    \/ TimeoutFires
    \/ AbortDuringFetch
    \/ AbortAfterFetch
    \/ FetchWithTimeoutSettles
    \/ HandleResponse
    \/ HandleError
    \/ AbortDuringCancel
    \/ AbortDuringSleep
    \/ SleepElapse
    \/ SleepDone

Next ==
    \/ CallSteps
    \/ BodyCancelSettles

\* fetchWithPolicy, one call under every policy and transport behaviour.
Spec == Init /\ [][Next]_vars

\* The same call when every factory call, network call and sleep settles:
\* the factory yields or throws, the network call is answered, fails or
\* times out, the timer of a sleep fires.  The promise of
\* response.body?.cancel() is the response's own and may stay pending.
SpecFair == Init /\ [][Next]_vars /\ WF_vars(CallSteps)

RoutingInit == HttpIdle /\ RouteInit /\ ClientIdle

\* createAdapterPlatform and the operations of the platform, for every
\* configuration of the model.
SpecRouting == RoutingInit /\ [][RouteNext]_vars

CanHandleInit ==
    /\ HttpIdle
    /\ ClientIdle
    /\ adapters \in AskedAdapterLists
    /\ apiKeys \in ApiKeyTables
    /\ defaultAdapterByCapability \in AskedDefaultTables
    /\ platform = "new"
    /\ currentBalance = 0
    /\ opCalls = <<>>
    /\ invocations = <<>>
    /\ nextUuid = 1
    /\ canHandleCalls = <<>>

\* generateImage is called on the platform, before, between or during the
\* calls of canHandle.
AskedOperation ==
    \E requestor \in Requestors :
        /\ Len(canHandleCalls) + Len(opCalls) < MaxProbes
        /\ routeRequired("generateImage", requestor)

CanHandleNext ==
    \/ Construct
    \/ ConstructSettles
    \/ \E capabilities \in CapabilityLists : CanHandle(capabilities)
    \/ CanHandleAnswers
    \/ ChangeApiKeys
    \/ AskedOperation
    \/ HandlerFulfils
    \/ HandlerRejects

ConcurrentInit ==
    /\ HttpIdle
    /\ ClientIdle
    /\ adapters \in ConcurrentAdapterLists
    /\ apiKeys \in ConcurrentKeyTables
    /\ defaultAdapterByCapability \in ConcurrentDefaultTables
    /\ platform = "new"
    /\ currentBalance = 0
    /\ opCalls = <<>>
    /\ invocations = <<>>
    /\ nextUuid = 1
    /\ canHandleCalls = <<>>

\* An operation is called while earlier calls may still be pending.
ConcurrentOperation ==
    \E op \in Operations \ {"checkBalance"}, requestor \in ConcurrentRequestors :
        /\ Len(opCalls) < MaxConcurrent
        /\ routeRequired(op, requestor)

ConcurrentCheckBalance ==
    \E requestor \in ConcurrentRequestors :
        /\ Len(opCalls) < MaxConcurrent
        /\ routeCheckBalance(requestor)

ConcurrentNext ==
    \/ Construct
    \/ ConstructSettles
    \/ ConcurrentOperation
    \/ ConcurrentCheckBalance
    \/ HandlerFulfils
    \/ HandlerRejects

\* One platform whose operations are called by two users, the calls
\* overlapping in every way.
SpecConcurrent == ConcurrentInit /\ [][ConcurrentNext]_vars

\* createAdapterPlatform and the canHandle of the platform, for registries
\* whose adapters may answer canHandle themselves.
SpecCanHandle == CanHandleInit /\ [][CanHandleNext]_vars

VideoCallInit == HttpIdle /\ RouteIdle /\ ChatIdle /\ OpenAIIdle /\ VideoInit

VideoNext ==
    \/ CallFetch
    \/ \E response \in Answers : FetchSettles(response)
    \/ DownloadImage
    \/ UploadImage
    \/ GenerateVideo
    \/ PollDelay
    \/ PollResult
    \/ ProduceVideoResumes
    \/ GetBalance
    \/ ZeroBalance
    \/ PlatformReturned

\* One call of the HTTP video adapter's generateVideo, of the Pixelverse
\* adapter's produceVideo or checkBalance, of createVideoProviderPlatform or
\* of produceVideo or checkBalance on the platform it returned, under every
\* behaviour of the network.
SpecVideo == VideoCallInit /\ [][VideoNext]_vars

ChatCallInit == HttpIdle /\ RouteIdle /\ VideoIdle /\ OpenAIIdle /\ ChatInit

ChatNext ==
    \/ ChatStart
    \/ AuthSettles
    \/ \E cookie \in CookieJars : GetResolves(cookie)
    \/ GetRejects
    \/ \E response \in ChatResponses : PostSettles(response)
    \/ \E response \in ChatResponses : UsageSettles(response)
    \/ ParseResponseBodySettles

\* One chatWithAI or getChatbotUsage call, under every state of the cookies
\* and every behaviour of the endpoint.
SpecChat == ChatCallInit /\ [][ChatNext]_vars

OpenAICallInit == RouteIdle /\ VideoIdle /\ ChatIdle /\ OpenAIInit

OpenAINext ==
    \/ OpenAIStart
    \/ CallFactory
    \/ StartAttempt
    \/ LoopExit
    \/ \E response \in Responses(calls) : FetchResponds(response)
    \/ \E error \in TransportErrors : FetchRejects(error)
    \/ TimeoutFires
    \/ FetchWithTimeoutSettles
    \/ HandleResponse
    \/ HandleError
    \/ BodyCancelSettles
    \/ SleepElapse
    \/ SleepDone
    \/ OpenAIResumes
    \/ \E body \in OpenAIBodies : OpenAISettles(body)

\* One operation of the OpenAI adapter, under every policy and every
\* behaviour of the network.
SpecOpenAI == OpenAICallInit /\ [][OpenAINext]_vars

----------------------------------------------------------------------------
(* Vocabulary of the transport properties                                  *)

Final == pc \in {"returned", "rejected"}

\* The effective maxAttempts is a whole number n.
WholeAttempts == policy.maxAttemptsX2 % 2 = 0
EffectiveMaxAttempts == policy.maxAttemptsX2 \div 2

Is2xx(status) == status >= 200 /\ status <= 299

\* Attempt i received a non-2xx response whose status the policy retries.
RetryableStatusAt(i) ==
    /\ history[i].error = "none"
    /\ ~Is2xx(history[i].status)
    /\ history[i].status \in policy.retryableStatusCodes

SuccessAt(i) == history[i].error = "none" /\ Is2xx(history[i].status)

ErrorAt(i, tag) == history[i].error = tag

\* The call returned the response of network call number id, as delivered.
ReturnedDelivered(id) ==
    /\ pc = "returned"
    /\ result = Returned(delivered)
    /\ delivered \in Responses(id)
    /\ delivered.status = history[Len(history)].status

\* The network call of the current attempt has been made and fetchWithPolicy
\* has not resumed after it: fetchFn is pending, or it has settled and the
\* continuations are still to run.
CallUnderWay == pc \in {"fetching", "settling", "settled"}

\* requestInit.signal.aborted
SignalAborted == reqInit.signal /\ extAborted

\* So far one network call per attempt, the last one possibly under way.
CallsTrackAttempts ==
    \/ calls = Len(history)
    \/ CallUnderWay /\ calls = Len(history) + 1

----------------------------------------------------------------------------
(* Properties of fetchWithPolicy                                           *)

\* C1: with a whole effective maxAttempts = n >= 1 and a retryable method,
\* while the transport has answered every attempt so far (fewer than n) with
\* a retryable status the call goes on, one network call per attempt; and
\* once attempts 1..n-1 got a retryable status and attempt n a 2xx, the call
\* has made exactly n network calls and has returned that 2xx response.
C1_RetryUntilSuccess ==
    (WholeAttempts /\ canRetryMethod) =>
        /\ ( /\ Len(history) < EffectiveMaxAttempts
             /\ \A i \in 1..Len(history) : RetryableStatusAt(i) )
           => (~Final /\ CallsTrackAttempts)
        /\ ( /\ Len(history) = EffectiveMaxAttempts
             /\ \A i \in 1..(Len(history) - 1) : RetryableStatusAt(i)
             /\ SuccessAt(Len(history)) )
           => ( /\ calls = EffectiveMaxAttempts
                /\ ReturnedDelivered(EffectiveMaxAttempts)
                /\ ok(result.response) )

C1_Witness ==
    /\ WholeAttempts /\ canRetryMethod
    /\ EffectiveMaxAttempts >= 2
    /\ Len(history) = EffectiveMaxAttempts
    /\ \A i \in 1..(Len(history) - 1) : RetryableStatusAt(i)
    /\ SuccessAt(Len(history))
    /\ pc = "returned" /\ calls = EffectiveMaxAttempts

\* C2: for every policy, when the first response is non-2xx with a status
\* outside the retryable set, exactly one network call is made and that
\* response is what the call returns, as delivered; nothing is thrown.
C2_NonRetryableStatusReturned ==
    ( /\ Len(history) >= 1
      /\ history[1].error = "none"
      /\ ~Is2xx(history[1].status)
      /\ history[1].status \notin policy.retryableStatusCodes )
    => ( /\ Len(history) = 1
         /\ calls = 1
         /\ ReturnedDelivered(1)
         /\ ~result.response.bodyCancelled
         /\ result.kind = "response" )

C2_Witness ==
    /\ Len(history) = 1
    /\ history[1].error = "none"
    /\ ~Is2xx(history[1].status)
    /\ history[1].status \notin policy.retryableStatusCodes
    /\ policy.maxAttemptsX2 >= 4 /\ canRetryMethod
    /\ pc = "returned" /\ calls = 1

\* C3 as stated: whenever every attempt received a retryable non-2xx status,
\* the finished call has made exactly maxAttempts network calls and returned
\* the response of the last one.
C3_AsStated ==
    ( /\ Final
      /\ Len(history) >= 1
      /\ \A i \in 1..Len(history) : RetryableStatusAt(i) )
    => ( /\ 2 * calls = policy.maxAttemptsX2
         /\ ReturnedDelivered(calls) )

\* C3, amended: when the method is retryable and maxAttempts is a whole
\* number n, a call whose every attempt receives a retryable non-2xx status
\* does not end before attempt n, makes exactly n network calls and returns
\* the response of call n instead of raising an error.
C3_ExhaustedReturnsLastResponse ==
    (WholeAttempts /\ canRetryMethod) =>
        /\ ( /\ Len(history) < EffectiveMaxAttempts
             /\ \A i \in 1..Len(history) : RetryableStatusAt(i) )
           => ~Final
        /\ ( /\ Final
             /\ Len(history) >= 1
             /\ \A i \in 1..Len(history) : RetryableStatusAt(i) )
           => ( /\ Len(history) = EffectiveMaxAttempts
                /\ calls = EffectiveMaxAttempts
                /\ ReturnedDelivered(EffectiveMaxAttempts)
                /\ ~ok(result.response) )

C3_Witness ==
    /\ WholeAttempts /\ canRetryMethod
    /\ EffectiveMaxAttempts >= 2
    /\ Final
    /\ Len(history) = EffectiveMaxAttempts
    /\ \A i \in 1..Len(history) : RetryableStatusAt(i)
    /\ result.kind = "response"

\* Time slept by the sleep that preceded the attempt about to start.
sleptMs == delayMs - sleepLeft

\* C4 as stated: for all policies, when a retried response carried a
\* Retry-After of k seconds, at least k x 1000 ms were slept before the next
\* attempt.  (retry.header.n is k in units of 1/10000 s.)
C4_AsStated ==
    ( /\ pc = "attempt"
      /\ retry.cause = "status"
      /\ retry.header.kind = "seconds" )
    => 10 * sleptMs >= retry.header.n

\* C4, amended: for all policies that respect Retry-After (the default), when
\* a retried response carried a Retry-After of k seconds, the time slept
\* before the next attempt is at least k x 1000 ms rounded to the nearest
\* millisecond, hence at least k x 1000 ms when that is a whole number.
C4_RetryAfterIsMinimumDelay ==
    ( /\ pc = "attempt"
      /\ retry.cause = "status"
      /\ retry.header.kind = "seconds"
      /\ policy.respectRetryAfter )
    => ( /\ 10 * sleptMs >= retry.header.n - 5
         /\ (retry.header.n % 10 = 0 => 10 * sleptMs >= retry.header.n) )

C4_Witness ==
    /\ pc = "attempt"
    /\ retry.cause = "status"
    /\ retry.header = HdrSeconds(10000)
    /\ policy.respectRetryAfter
    /\ retry.backoffMs < 1000
    /\ sleptMs = 1000

\* C5: a TypeError from the transport is retried like a retryable status:
\* with a retryable method and a whole maxAttempts = n the call goes on while
\* every attempt so far (fewer than n) failed that way and the caller has
\* not aborted, n-1 failures followed by a 2xx give n network calls and that
\* response, and a failure on the last allowed attempt, or with a method
\* that is not retryable, rejects the call with that TypeError.
C5_NetworkFailureRetried ==
    /\ (WholeAttempts /\ canRetryMethod) =>
          /\ ( /\ Len(history) < EffectiveMaxAttempts
               /\ \A i \in 1..Len(history) : ErrorAt(i, "TypeError")
               /\ ~SignalAborted )
             => (~Final /\ CallsTrackAttempts)
          /\ ( /\ Len(history) = EffectiveMaxAttempts
               /\ \A i \in 1..(Len(history) - 1) : ErrorAt(i, "TypeError")
               /\ SuccessAt(Len(history)) )
             => ( /\ calls = EffectiveMaxAttempts
                  /\ ReturnedDelivered(EffectiveMaxAttempts)
                  /\ ok(result.response) )
    /\ ( /\ Len(history) >= 1
         /\ ErrorAt(Len(history), "TypeError")
         /\ (2 * Len(history) >= policy.maxAttemptsX2 \/ ~canRetryMethod) )
       => ( /\ pc = "rejected"
            /\ result = Rejected("TypeError")
            /\ calls = Len(history) )

\* The first of two attempts met a network failure and the caller aborted
\* before fetchWithPolicy resumed: rejected with the TypeError, no retry.
C5_WitnessAborted ==
    /\ policy.maxAttemptsX2 = 4
    /\ canRetryMethod
    /\ history = <<Entry(0, "TypeError")>>
    /\ SignalAborted
    /\ pc = "rejected"
    /\ result = Rejected("TypeError")
    /\ calls = 1
    /\ factoryCalls = 1

C5_Witness ==
    /\ WholeAttempts /\ canRetryMethod
    /\ EffectiveMaxAttempts >= 2
    /\ Len(history) = EffectiveMaxAttempts
    /\ \A i \in 1..(Len(history) - 1) : ErrorAt(i, "TypeError")
    /\ SuccessAt(Len(history))
    /\ pc = "returned" /\ calls = EffectiveMaxAttempts

\* C6 as stated: an attempt that times out is retried when attempts remain
\* and the method is retryable, so that with a retryable method and a whole
\* maxAttempts = n a call whose attempts so far (fewer than n) all timed out
\* has not ended, and the timeout error reaches the caller only on attempt n.
C6_TimeoutRetried ==
    ( /\ WholeAttempts /\ canRetryMethod
      /\ Len(history) >= 1
      /\ Len(history) < EffectiveMaxAttempts
      /\ \A i \in 1..Len(history) : ErrorAt(i, "timeout")
      /\ ~SignalAborted )
    => ~Final

\* The external signal has fired while the network call of the current
\* attempt was pending, and fetchWithPolicy has not resumed yet.
AbortedInFlight == CallUnderWay /\ settlement.tag = "extAbort"

\* C7: when the external signal fires while the network call of an attempt
\* is pending, that call is aborted and the next thing fetchWithPolicy does
\* is to reject with the signal's reason: the attempt counter does not
\* advance, no factory call and no network call follows the aborted one and
\* no sleep is started, whatever the policy.
C7_ExternalAbortEndsCall ==
    /\ []( ( /\ Len(history) >= 1
             /\ ErrorAt(Len(history), "extAbort") )
           => ( /\ pc = "rejected"
                /\ result = Rejected(abortReason)
                /\ attempt = Len(history)
                /\ calls = Len(history)
                /\ ~timerArmed /\ ~listenerOn ) )
    /\ [][ (pc = "fetching" /\ ~SignalAborted /\ SignalAborted')
           => AbortedInFlight' ]_vars
    /\ [][ AbortedInFlight
           => ( /\ calls' = calls
                /\ factoryCalls' = factoryCalls
                /\ attempt' = attempt
                /\ \/ AbortedInFlight'
                   \/ /\ pc' = "rejected"
                      /\ result' = Rejected(abortReason)
                      /\ history'[Len(history')].error = "extAbort" ) ]_vars

C7_Witness ==
    /\ Len(history) >= 1
    /\ ErrorAt(Len(history), "extAbort")
    /\ 2 * attempt < policy.maxAttemptsX2
    /\ canRetryMethod
    /\ isRetryableError(abortReason)
    /\ pc = "rejected"

\* C8 as stated: once the external signal has fired during a backoff sleep
\* with part of the delay still to run, the next thing that happens is the
\* rejection of the call with the abort reason: no more of the delay is
\* waited for and no network call is made.
C8_AbortCancelsSleep ==
    [][ (pc = "sleeping" /\ abortedInSleep /\ sleepLeft > 0)
        => (pc' = "rejected" /\ result' = Rejected(abortReason) /\ calls' = calls) ]_vars

----------------------------------------------------------------------------
(* Vocabulary of the routing properties                                    *)

\* The key table holds a key for id that is not blank.
KeyPresent(id) ==
    /\ id \in DOMAIN apiKeys
    /\ apiKeys[id].present
    /\ \E n \in 1..Len(apiKeys[id].value) : apiKeys[id].value[n] \notin Whitespace

Registered(id) == \E i \in 1..Len(adapters) : adapters[i].id = id

\* Some registered adapter with this id declares the capability and has the
\* operation's handler.
Serves(id, capability, op) ==
    \E i \in 1..Len(adapters) :
        /\ adapters[i].id = id
        /\ capability \in adapters[i].capabilities
        /\ op \in adapters[i].handlers

\* The handler invocations made on behalf of operation call k.
InvocationsOf(k) == {j \in 1..Len(invocations) : invocations[j].call = k}

InvokedOn(j) == adapters[invocations[j].adapter].id

\* A and B are the two registered adapters, both declare Image and implement
\* generateImage, and the default for Image names B.
TwoImageAdaptersDefaultB ==
    /\ Len(adapters) = 2
    /\ {adapters[1].id, adapters[2].id} = {"A", "B"}
    /\ Serves("A", "Image", "generateImage")
    /\ Serves("B", "Image", "generateImage")
    /\ defaultAdapterByCapability["Image"] = "B"

\* Call k invoked the generateImage handler of B, once, and no other handler.
ImageServedByB(k) ==
    /\ \E j \in InvocationsOf(k) :
          /\ InvokedOn(j) = "B"
          /\ invocations[j].operation = "generateImage"
    /\ Cardinality(InvocationsOf(k)) = 1
    /\ \A j \in InvocationsOf(k) : InvokedOn(j) # "A"

----------------------------------------------------------------------------
(* Properties of the routing engine                                        *)

\* C9 as stated: given A and B that both declare Image and implement
\* generateImage, with the Image default naming B, every generateImage call
\* invokes B's handler and never A's, in either registration order.
C9_AsStated ==
    \A k \in 1..Len(opCalls) :
        (opCalls[k].op = "generateImage" /\ TwoImageAdaptersDefaultB)
        => ImageServedByB(k)

\* C9, amended: given A and B that both declare Image and implement
\* generateImage, with the Image default naming B and a present API key for
\* B, every generateImage call invokes B's handler and never A's, in either
\* registration order.
C9_DefaultAdapterServesImage ==
    \A k \in 1..Len(opCalls) :
        (opCalls[k].op = "generateImage" /\ TwoImageAdaptersDefaultB /\ KeyPresent("B"))
        => ( /\ ImageServedByB(k)
             /\ adapters[opCalls[k].adapter].id = "B" )

C9_Witness ==
    /\ TwoImageAdaptersDefaultB
    /\ adapters[1].id = "A"
    /\ KeyPresent("A") /\ KeyPresent("B")
    /\ \E k \in 1..Len(opCalls) :
          /\ opCalls[k].op = "generateImage"
          /\ opCalls[k].state = "fulfilled"
          /\ opCalls[k].completion.producer = "B"

\* The configured default id cannot serve operation op of the capability.
BrokenDefault(id, capability, op) ==
    \/ ~Registered(id)
    \/ ~Serves(id, capability, op)
    \/ ~KeyPresent(id)

ConfigurationErrors ==
    {"Configured adapter was not found",
     "Configured adapter does not declare capability",
     "Configured adapter does not implement",
     "Missing API key for configured adapter"}

\* C10: when the default configured for a capability is not registered, does
\* not declare the capability, lacks the operation's handler or has no
\* present API key, a mandatory operation of that capability is rejected with
\* a configuration error and no handler of any adapter is invoked for it.
C10_BrokenDefaultIsFatal ==
    \A k \in 1..Len(opCalls) :
        LET op == opCalls[k].op
            capability == OperationCapability(op)
            id == defaultAdapterByCapability[capability]
        IN  (op # "checkBalance" /\ id # "" /\ BrokenDefault(id, capability, op))
            => ( /\ opCalls[k].state = "rejected"
                 /\ opCalls[k].error[1] \in ConfigurationErrors
                 /\ opCalls[k].adapter = 0
                 /\ InvocationsOf(k) = {} )

\* A broken default was fatal although another adapter could have served.
C10_Witness ==
    \E k \in 1..Len(opCalls) :
        LET op == opCalls[k].op
            capability == OperationCapability(op)
            id == defaultAdapterByCapability[capability]
        IN  /\ op # "checkBalance" /\ id # ""
            /\ BrokenDefault(id, capability, op)
            /\ \E i \in 1..Len(adapters) :
                  /\ adapters[i].id # id
                  /\ Serves(adapters[i].id, capability, op)
                  /\ KeyPresent(adapters[i].id)
            /\ opCalls[k].state = "rejected"

\* Adapter i declares the capability and has the operation's handler.
ServesAt(i, capability, op) ==
    /\ capability \in adapters[i].capabilities
    /\ op \in adapters[i].handlers

\* Adapter i is the first one in registration order that serves the operation.
FirstServing(i, capability, op) ==
    /\ ServesAt(i, capability, op)
    /\ \A h \in 1..(i - 1) : ~ServesAt(h, capability, op)

\* Call k invoked handler op of adapter i, once, and no other handler.
ServedBy(k, i, op) ==
    /\ opCalls[k].adapter = i
    /\ Cardinality(InvocationsOf(k)) = 1
    /\ \A j \in InvocationsOf(k) :
          /\ invocations[j].adapter = i
          /\ invocations[j].operation = op

\* C11: when no default is configured for the capability of an operation, the
\* call is routed to the first adapter in registration order that declares
\* the capability and has the operation's handler, passing over earlier
\* adapters that declare the capability without the handler: with a present
\* key that adapter's handler is invoked and no other; without one no handler
\* is invoked and a mandatory call fails naming that adapter.
C11_FirstServingAdapterSelected ==
    \A k \in 1..Len(opCalls) : \A i \in 1..Len(adapters) :
        LET op == opCalls[k].op
            capability == OperationCapability(op)
        IN  (defaultAdapterByCapability[capability] = ""
             /\ FirstServing(i, capability, op))
            => IF KeyPresent(adapters[i].id)
               THEN ServedBy(k, i, op)
               ELSE /\ InvocationsOf(k) = {}
                    /\ op # "checkBalance"
                       => /\ opCalls[k].state = "rejected"
                          /\ opCalls[k].error =
                                <<"Missing API key for adapter", adapters[i].id>>

\* The first adapter declares Image without generateImage and was passed
\* over: the second one served the call.
C11_Witness ==
    /\ Len(adapters) = 2
    /\ defaultAdapterByCapability["Image"] = ""
    /\ "Image" \in adapters[1].capabilities
    /\ "generateImage" \notin adapters[1].handlers
    /\ KeyPresent(adapters[1].id)
    /\ \E k \in 1..Len(opCalls) :
          /\ opCalls[k].op = "generateImage"
          /\ opCalls[k].state = "fulfilled"
          /\ ServedBy(k, 2, "generateImage")

\* The characters of str between its first and its last non-whitespace
\* character, both included; nothing when there is none.
Stripped(str) ==
    LET solid == {n \in 1..Len(str) : str[n] \notin Whitespace}
    IN  IF solid = {} THEN <<>>
        ELSE SubSeq(str, CHOOSE n \in solid : \A m \in solid : n <= m,
                         CHOOSE n \in solid : \A m \in solid : n >= m)

\* The requestor id given to the call that made invocation j; the eager
\* balance check of the construction is made for the constructing user.
RequestorOf(j) ==
    IF invocations[j].call = 0 THEN ConstructingUser
    ELSE opCalls[invocations[j].call].requestor

\* C12: the request passed to the selected handler carries as apiKey the key
\* registered under that adapter's id with the surrounding whitespace
\* removed, as providerId that adapter's id, and as userId the requestor id
\* given to the call.
C12_RequestCarriesKeyAndIdentities ==
    \A j \in 1..Len(invocations) :
        LET id == InvokedOn(j)
            request == invocations[j].request
        IN  /\ apiKeys[id].present
            /\ request.apiKey = Stripped(apiKeys[id].value)
            /\ request.apiKey # <<>>
            /\ request.providerId = id
            /\ request.userId = RequestorOf(j)

\* A handler of A, registered with a padded key, was invoked for a requestor
\* other than the constructing user.
C12_Witness ==
    \E j \in 1..Len(invocations) :
        /\ invocations[j].call > 0
        /\ InvokedOn(j) = "A"
        /\ apiKeys["A"].value = <<" ", "a", " ">>
        /\ invocations[j].request.apiKey = <<"a">>
        /\ invocations[j].request.userId # ConstructingUser

\* The adapter that resolution selects for operation op: the configured
\* default when it is registered and serves the operation, or without a
\* default the first adapter that serves it.
Selected(i, capability, op) ==
    LET id == defaultAdapterByCapability[capability]
    IN  IF id # ""
        THEN adapters[i].id = id /\ ServesAt(i, capability, op)
        ELSE FirstServing(i, capability, op)

MissingKeyErrors ==
    {"Missing API key for configured adapter", "Missing API key for adapter"}

\* C13: for a mandatory operation, when the selected adapter has no API key
\* entry or only a blank or whitespace-only key, the call is rejected with an
\* error that mentions "Missing API key" and no handler is invoked.
C13_MissingKeyRejects ==
    \A k \in 1..Len(opCalls) : \A i \in 1..Len(adapters) :
        LET op == opCalls[k].op
            capability == OperationCapability(op)
            entry == apiKeys[adapters[i].id]
        IN  ( /\ op # "checkBalance"
              /\ Selected(i, capability, op)
              /\ (~entry.present \/ \A n \in 1..Len(entry.value) :
                                        entry.value[n] \in Whitespace) )
            => /\ opCalls[k].state = "rejected"
               /\ opCalls[k].error[1] \in MissingKeyErrors
               /\ opCalls[k].error[2] = adapters[i].id
               /\ InvocationsOf(k) = {}

\* One configuration where A has no entry and B a whitespace-only key: a
\* mandatory call selected one of them and was rejected.
C13_Witness ==
    /\ ~apiKeys["A"].present
    /\ apiKeys["B"].value = <<" ">>
    /\ \E k \in 1..Len(opCalls) : \E i \in 1..Len(adapters) :
          /\ opCalls[k].op = "generateImage"
          /\ Selected(i, "Image", "generateImage")
          /\ adapters[i].id = "B"
          /\ opCalls[k].state = "rejected"
          /\ opCalls[k].error[1] \in MissingKeyErrors

\* An adapter id that is empty or consists of whitespace only.
BlankId(id) == id \in {"", " "}

\* Every adapter id is non-blank and no two adapters share one.
IdsWellFormed ==
    /\ \A i \in 1..Len(adapters) : ~BlankId(adapters[i].id)
    /\ \A i, j \in 1..Len(adapters) : adapters[i].id = adapters[j].id => i = j

\* No default is configured for Balance and no registered adapter declares
\* Balance with a checkBalance handler.
NoBalanceAdapter ==
    /\ defaultAdapterByCapability["Balance"] = ""
    /\ \A i \in 1..Len(adapters) : ~ServesAt(i, "Balance", "checkBalance")

\* C14: when no registered adapter declares Balance with a checkBalance
\* handler and no Balance default is configured, checkBalance does not throw
\* and returns a completion with balance 0 whose partitionKey is the
\* requestor id, without invoking a handler, and the construction of a
\* well-formed registry yields a platform whose currentBalance is 0.
C14_ZeroBalanceFallback ==
    NoBalanceAdapter
    => /\ \A k \in 1..Len(opCalls) :
             opCalls[k].op = "checkBalance"
             => /\ opCalls[k].state = "fulfilled"
                /\ opCalls[k].completion.balance = 0
                /\ opCalls[k].completion.partitionKey = opCalls[k].requestor
                /\ InvocationsOf(k) = {}
       /\ (IdsWellFormed /\ platform # "new")
             => (platform = "ready" /\ currentBalance = 0)

\* Only an Image adapter is registered, with its key: the platform is ready
\* and a checkBalance call has returned the zero balance.
C14_Witness ==
    /\ NoBalanceAdapter
    /\ Len(adapters) = 1
    /\ ServesAt(1, "Image", "generateImage")
    /\ KeyPresent(adapters[1].id)
    /\ platform = "ready"
    /\ currentBalance = 0
    /\ \E k \in 1..Len(opCalls) :
          /\ opCalls[k].op = "checkBalance"
          /\ opCalls[k].state = "fulfilled"
          /\ opCalls[k].completion.partitionKey = opCalls[k].requestor
          /\ opCalls[k].requestor # ConstructingUser


\* The configuration error that resolution detects for operation op of the
\* capability, with the adapter id it is about; <<>> when there is none.
\* The checks are those of a configured default, in order, and the key of
\* the adapter found without a default.
ConfigurationErrorOf(capability, op) ==
    LET id == defaultAdapterByCapability[capability]
    IN  IF id # ""
        THEN IF ~Registered(id) THEN <<"Configured adapter was not found", id>>
             ELSE IF \A i \in 1..Len(adapters) :
                        adapters[i].id = id => capability \notin adapters[i].capabilities
             THEN <<"Configured adapter does not declare capability", id>>
             ELSE IF ~Serves(id, capability, op)
             THEN <<"Configured adapter does not implement", id>>
             ELSE IF ~KeyPresent(id)
             THEN <<"Missing API key for configured adapter", id>>
             ELSE <<>>
        ELSE IF \E i \in 1..Len(adapters) :
                   FirstServing(i, capability, op) /\ ~KeyPresent(adapters[i].id)
        THEN <<"Missing API key for adapter",
               adapters[CHOOSE i \in 1..Len(adapters) :
                           FirstServing(i, capability, op)].id>>
        ELSE <<>>

\* Call k failed with the error, and no handler was invoked for it.
FailedWith(k, error) ==
    /\ opCalls[k].state = "rejected"
    /\ opCalls[k].error = error
    /\ opCalls[k].adapter = 0
    /\ InvocationsOf(k) = {}

\* C17 as stated: every configuration error detected during resolution
\* (configured default not found, capability not declared, handler missing,
\* API key missing) is fatal to the operation call that triggered it,
\* checkBalance included: the call fails with that error and no handler is
\* invoked.
C17_AsStated ==
    \A k \in 1..Len(opCalls) :
        LET error == ConfigurationErrorOf(OperationCapability(opCalls[k].op),
                                          opCalls[k].op)
        IN  error # <<>> => FailedWith(k, error)

\* C17, amended: every configuration error detected during the resolution of
\* a mandatory operation is fatal to the call: it fails with that error, no
\* handler is invoked for it and the failure stands; checkBalance, whose
\* resolution is optional, answers the same conditions with the
\* zero-balance completion and invokes no handler either.
C17_ConfigurationErrorIsFatal ==
    \A k \in 1..Len(opCalls) :
        LET error == ConfigurationErrorOf(OperationCapability(opCalls[k].op),
                                          opCalls[k].op)
        IN  error # <<>>
            => IF opCalls[k].op # "checkBalance"
               THEN FailedWith(k, error)
               ELSE /\ opCalls[k].state = "fulfilled"
                    /\ opCalls[k].completion =
                          [partitionKey |-> opCalls[k].requestor,
                           id |-> opCalls[k].completion.id,
                           type |-> "balanceCompletion", producer |-> "",
                           balance |-> 0]
                    /\ InvocationsOf(k) = {}

\* A speech operation failed because the configured default lacks its
\* handler.
C17_Witness ==
    \E k \in 1..Len(opCalls) :
        /\ opCalls[k].op \in {"synthesizeSpeech", "transcribeSpeech"}
        /\ ConfigurationErrorOf("Speech", opCalls[k].op)
              = <<"Configured adapter does not implement", "B">>
        /\ FailedWith(k, <<"Configured adapter does not implement", "B">>)


\* C18: createAdapterPlatform rejects construction, before any adapter
\* handler is invoked, if an adapter id is empty or whitespace-only or if
\* two adapters of the list share an id: no platform comes to exist, so no
\* operation is ever called on one.
C18_MalformedIdsRejected ==
    ~IdsWellFormed
    => /\ platform \in {"new", "failed"}
       /\ invocations = <<>>
       /\ opCalls = <<>>
       /\ canHandleCalls = <<>>

\* Construction was rejected for a whitespace-only id that follows an
\* adapter able to answer the eager balance check.
C18_Witness ==
    /\ platform = "failed"
    /\ Len(adapters) = 2
    /\ BlankId(adapters[2].id)
    /\ ServesAt(1, "Balance", "checkBalance")
    /\ KeyPresent(adapters[1].id)
    /\ defaultAdapterByCapability["Balance"] = ""
    /\ invocations = <<>>

\* Construction was rejected for a duplicated id.
C18_WitnessDuplicate ==
    /\ platform = "failed"
    /\ Len(adapters) = 2
    /\ adapters[1].id = adapters[2].id
    /\ invocations = <<>>


\* C19: the routing engine returns the completion produced by the selected
\* adapter's handler to the caller unchanged, and a rejection of the handler
\* reaches the caller as the same error with nothing added; either way the
\* call has invoked that one handler only, with no fallback to another
\* adapter.
C19_HandlerOutcomePassedThrough ==
    \A j \in 1..Len(invocations) :
        LET k == invocations[j].call
            outcome == invocations[j].outcome
        IN  k > 0
            => /\ InvocationsOf(k) = {j}
               /\ opCalls[k].state = outcome.kind
               /\ opCalls[k].completion = outcome.completion
               /\ opCalls[k].error =
                     (IF outcome.kind = "rejected" THEN <<outcome.error>> ELSE <<>>)

\* The first of two adapters able to generate images rejected: the call is
\* rejected with the handler's error and the second was not tried.
C19_Witness ==
    /\ Len(adapters) = 2
    /\ defaultAdapterByCapability["Image"] = ""
    /\ \A i \in 1..2 : ServesAt(i, "Image", "generateImage")
                         /\ KeyPresent(adapters[i].id)
    /\ \E k \in 1..Len(opCalls) :
          /\ opCalls[k].op = "generateImage"
          /\ opCalls[k].state = "rejected"
          /\ \E e \in HandlerErrors : opCalls[k].error = <<e>>
          /\ \A j \in InvocationsOf(k) : invocations[j].adapter = 1

\* A handler's completion has reached the caller.
C19_WitnessCompletion ==
    \E j \in 1..Len(invocations) :
        /\ invocations[j].call > 0
        /\ invocations[j].outcome.kind = "fulfilled"
        /\ invocations[j].outcome.completion.producer = InvokedOn(j)
        /\ opCalls[invocations[j].call].completion = invocations[j].outcome.completion

\* Resolution finds a usable balance adapter: the configured default or the
\* first serving adapter, with a present key.
UsableBalanceAdapter ==
    \E i \in 1..Len(adapters) :
        /\ Selected(i, "Balance", "checkBalance")
        /\ KeyPresent(adapters[i].id)

\* C20: the zero-balance fallback applies only when resolution finds no
\* usable balance adapter; when a balance adapter is resolved and its
\* checkBalance handler rejects, checkBalance rejects with that error and
\* returns no zero balance, and when this happens in the eager call of the
\* construction, createAdapterPlatform itself rejects.
C20_BalanceHandlerRejectionPropagates ==
    /\ \A j \in 1..Len(invocations) :
          LET k == invocations[j].call
              outcome == invocations[j].outcome
          IN  (invocations[j].operation = "checkBalance"
               /\ outcome.kind = "rejected")
              => IF k = 0 THEN platform = "failed"
                 ELSE /\ opCalls[k].state = "rejected"
                      /\ opCalls[k].error = <<outcome.error>>
                      /\ opCalls[k].completion = NoCompletion
    /\ \A k \in 1..Len(opCalls) :
          (opCalls[k].op = "checkBalance" /\ UsableBalanceAdapter)
          => /\ Cardinality(InvocationsOf(k)) = 1
             /\ opCalls[k].state = "fulfilled"
                => opCalls[k].completion.producer # ""
    /\ (UsableBalanceAdapter /\ platform = "ready")
          => \E j \in 1..Len(invocations) :
                /\ invocations[j].call = 0
                /\ invocations[j].outcome.kind = "fulfilled"
                /\ currentBalance = invocations[j].outcome.completion.balance

\* The platform was constructed with a balance, and a later checkBalance
\* call was rejected by the same adapter's handler.
C20_Witness ==
    /\ platform = "ready"
    /\ currentBalance > 0
    /\ \E k \in 1..Len(opCalls) :
          /\ opCalls[k].op = "checkBalance"
          /\ opCalls[k].state = "rejected"
          /\ \E j \in InvocationsOf(k) :
                /\ invocations[j].outcome.kind = "rejected"
                /\ opCalls[k].error = <<invocations[j].outcome.error>>

\* The eager balance check was rejected by the handler: no platform.
C20_WitnessConstruction ==
    /\ IdsWellFormed
    /\ platform = "failed"
    /\ \E j \in 1..Len(invocations) :
          /\ invocations[j].call = 0
          /\ invocations[j].outcome.kind = "rejected"


\* The handler invocations of the eager balance check of the construction.
EagerInvocations == {j \in 1..Len(invocations) : invocations[j].call = 0}

\* The balance the eager checkBalance call returned: the handler's when a
\* balance adapter was resolved, that of the zero-balance completion
\* otherwise.
EagerBalance ==
    IF EagerInvocations = {} THEN 0
    ELSE invocations[CHOOSE j \in EagerInvocations : TRUE].outcome.completion.balance

\* C21: currentBalance is computed exactly once, during construction, as the
\* balance returned by one eager checkBalance call made for the constructing
\* user; once the platform exists no checkBalance call and no other
\* operation changes it.
C21_BalanceComputedOnce ==
    /\ [](/\ Cardinality(EagerInvocations) <= 1
          /\ \A j \in EagerInvocations :
                /\ invocations[j].operation = "checkBalance"
                /\ invocations[j].request.userId = ConstructingUser
          /\ platform = "ready" => currentBalance = EagerBalance)
    /\ [][platform = "ready"
            => (platform' = "ready" /\ currentBalance' = currentBalance)]_vars

\* The platform was built with the balance its adapter reported, a later
\* checkBalance call returned another balance, and currentBalance kept the
\* first.
C21_Witness ==
    /\ platform = "ready"
    /\ currentBalance = 5
    /\ EagerInvocations # {}
    /\ \E k \in 1..Len(opCalls) :
          /\ opCalls[k].op = "checkBalance"
          /\ opCalls[k].state = "fulfilled"
          /\ opCalls[k].completion.balance = 0
          /\ opCalls[k].completion.producer # ""


\* C22: operation calls that overlap on one platform each get a Request
\* Context of their own: its trace identifier differs from that of every
\* other call, and the userId, providerId and apiKey a handler sees are those
\* of its own call (its requestor, the adapter invoked, that adapter's key),
\* whatever other calls are pending at the same time.  crypto.randomUUID()
\* is taken never to repeat a value.
C22_ConcurrentCallsKeepOwnContext ==
    \A j \in 1..Len(invocations) :
        /\ \A h \in 1..Len(invocations) :
              h # j => invocations[h].request.traceId # invocations[j].request.traceId
        /\ invocations[j].request.userId = RequestorOf(j)
        /\ invocations[j].request.providerId = InvokedOn(j)
        /\ invocations[j].request.apiKey = Stripped(apiKeys[InvokedOn(j)].value)

\* Two calls by different users are pending at the same time on different
\* adapters with different keys.
C22_Witness ==
    \E j, h \in 1..Len(invocations) :
        /\ invocations[j].call > 0 /\ invocations[h].call > 0
        /\ invocations[j].outcome.kind = "pending"
        /\ invocations[h].outcome.kind = "pending"
        /\ opCalls[invocations[j].call].state = "pending"
        /\ opCalls[invocations[h].call].state = "pending"
        /\ invocations[j].request.userId # invocations[h].request.userId
        /\ invocations[j].request.providerId # invocations[h].request.providerId
        /\ invocations[j].request.apiKey # invocations[h].request.apiKey
        /\ invocations[j].request.traceId # invocations[h].request.traceId

----------------------------------------------------------------------------
(* Properties of canHandle                                                 *)

\* The platform operations that resolve the capability.
OperationsOf(capability) ==
    {op \in Operations : OperationCapability(op) = capability}

\* Adapter i is the one to consider for the capability: the configured
\* default if one is set, otherwise the adapter that resolution selects for
\* an operation of the capability.
Resolvable(i, capability) ==
    IF defaultAdapterByCapability[capability] # ""
    THEN adapters[i].id = defaultAdapterByCapability[capability]
    ELSE \E op \in OperationsOf(capability) : FirstServing(i, capability, op)

\* Adapter i declares the capability, has a present key and a handler of the
\* capability, and does not reject through a canHandle of its own.
Able(i, capability) ==
    /\ capability \in adapters[i].capabilities
    /\ KeyPresent(adapters[i].id)
    /\ \E op \in OperationsOf(capability) : op \in adapters[i].handlers
    /\ adapters[i].canHandle # "rejects"

Handleable(capability) ==
    \E i \in 1..Len(adapters) : Resolvable(i, capability) /\ Able(i, capability)

\* Call p of canHandle has returned, and the key table is as it was when
\* the call was made.
Answered(p) ==
    /\ canHandleCalls[p].state = "settled"
    /\ ~canHandleCalls[p].stale

\* The positions of the requested capabilities that fail a check.
Failing(capabilities) ==
    {n \in 1..Len(capabilities) : ~Handleable(capabilities[n])}

\* C15: canHandle(capabilities) returns true exactly when every requested
\* capability has a resolvable adapter (the configured default if one is
\* set, otherwise the adapter that resolution would select) that declares
\* it, has a present API key, exposes a handler of it and, if it has a
\* canHandle of its own, accepts; and no adapter is asked about a capability
\* that comes after the first failing one.
C15_CanHandleMatchesResolution ==
    \A p \in 1..Len(canHandleCalls) :
        LET capabilities == canHandleCalls[p].capabilities
            asked == canHandleCalls[p].asked
        IN  Answered(p) =>
            /\ canHandleCalls[p].result = (Failing(capabilities) = {})
            /\ \A a \in 1..Len(asked) : \A m \in 1..Len(capabilities) :
                  capabilities[m] = asked[a].capabilities[1]
                  => \A n \in Failing(capabilities) : m <= n

\* Adapter i is the sole adapter for the capability: the only one that
\* declares it, with a handler of it and no rejecting canHandle of its own,
\* and no default names another adapter.
SoleAdapterFor(i, capability) ==
    /\ capability \in adapters[i].capabilities
    /\ \A h \in 1..Len(adapters) :
          capability \in adapters[h].capabilities => h = i
    /\ \E op \in OperationsOf(capability) : op \in adapters[i].handlers
    /\ adapters[i].canHandle # "rejects"
    /\ defaultAdapterByCapability[capability] \in {"", adapters[i].id}

\* C16: canHandle([c]) returns false when the sole adapter for capability c
\* has no entry in the API key table, and true when a non-blank key is
\* registered under that adapter's id.
C16_CanHandleFollowsKey ==
    \A p \in 1..Len(canHandleCalls) : \A i \in 1..Len(adapters) :
        LET capabilities == canHandleCalls[p].capabilities
        IN  (Answered(p) /\ Len(capabilities) = 1 /\ SoleAdapterFor(i, capabilities[1]))
            => /\ ~apiKeys[adapters[i].id].present
                  => canHandleCalls[p].result = FALSE
               /\ KeyPresent(adapters[i].id)
                  => canHandleCalls[p].result = TRUE

\* A is the only registered adapter and serves Image: canHandle([Image]) has
\* answered false without a key entry for A.
C16_WitnessNoEntry ==
    /\ Len(adapters) = 1
    /\ SoleAdapterFor(1, "Image")
    /\ ~apiKeys[adapters[1].id].present
    /\ \E p \in 1..Len(canHandleCalls) :
          /\ Answered(p)
          /\ canHandleCalls[p].capabilities = <<"Image">>
          /\ canHandleCalls[p].result = FALSE

\* On the same registry canHandle([Image]) answered false, a key was then
\* registered for A, and canHandle([Image]) has answered true.
C16_Witness ==
    /\ Len(adapters) = 1
    /\ SoleAdapterFor(1, "Image")
    /\ KeyPresent(adapters[1].id)
    /\ Len(canHandleCalls) = 2
    /\ canHandleCalls[1].capabilities = <<"Image">>
    /\ canHandleCalls[1].state = "settled"
    /\ canHandleCalls[1].stale
    /\ canHandleCalls[1].result = FALSE
    /\ canHandleCalls[2].capabilities = <<"Image">>
    /\ Answered(2)
    /\ canHandleCalls[2].result = TRUE

\* What call p of canHandle has done so far.
Progress(p) == [canHandleCalls[p] EXCEPT !.stale = FALSE]

\* This step is one of canHandle: a call is made, or a pending call goes on.
CanHandleActs ==
    \/ Len(canHandleCalls') # Len(canHandleCalls)
    \/ \E p \in 1..Len(canHandleCalls) : Progress(p)' # Progress(p)

\* C23: canHandle, in the step of its call and in every step it takes after
\* an await, does not mutate the adapter registry, the API key table
\* or the default-adapter table, invokes no operation handler and leaves
\* the platform as it was; calls with the same capabilities on the
\* unchanged configuration return the same result, asking the same adapters.
C23_CanHandleIsPure ==
    /\ [][CanHandleActs
            => /\ adapters' = adapters
               /\ apiKeys' = apiKeys
               /\ defaultAdapterByCapability' = defaultAdapterByCapability
               /\ invocations' = invocations
               /\ opCalls' = opCalls
               /\ platform' = platform
               /\ currentBalance' = currentBalance]_vars
    /\ [](\A p, q \in 1..Len(canHandleCalls) :
             ( /\ Answered(p) /\ Answered(q)
               /\ canHandleCalls[p].capabilities = canHandleCalls[q].capabilities )
             => /\ canHandleCalls[p].result = canHandleCalls[q].result
                /\ canHandleCalls[p].asked = canHandleCalls[q].asked)

\* canHandle([Image, Speech]) is waiting for an adapter's answer about Image
\* while a call of generateImage has been routed, invoked and fulfilled.
C23_WitnessAmidOperation ==
    /\ Len(canHandleCalls) = 1
    /\ canHandleCalls[1].capabilities = <<"Image", "Speech">>
    /\ canHandleCalls[1].state = "pending"
    /\ Len(opCalls) = 1
    /\ opCalls[1].op = "generateImage"
    /\ opCalls[1].state = "fulfilled"

\* canHandle([Image, Speech]) asked adapter A about Image, the key of A was
\* removed before A answered, and the call returned false at Speech without
\* asking again.
C23_WitnessKeyRemoved ==
    /\ Len(adapters) = 1
    /\ ~apiKeys["A"].present
    /\ Len(canHandleCalls) = 1
    /\ canHandleCalls[1].capabilities = <<"Image", "Speech">>
    /\ canHandleCalls[1].state = "settled"
    /\ canHandleCalls[1].stale
    /\ canHandleCalls[1].result = FALSE
    /\ Len(canHandleCalls[1].asked) = 1
    /\ canHandleCalls[1].asked[1].capabilities = <<"Image">>
    /\ "Speech" \in adapters[1].capabilities
    /\ "synthesizeSpeech" \in adapters[1].handlers

\* canHandle([Image, Speech]) was called twice and answered true twice,
\* having asked an adapter's own canHandle each time.
C23_Witness ==
    /\ Len(canHandleCalls) = 2
    /\ Answered(1) /\ Answered(2)
    /\ canHandleCalls[1].capabilities = <<"Image", "Speech">>
    /\ canHandleCalls[2].capabilities = <<"Image", "Speech">>
    /\ canHandleCalls[1].result = TRUE
    /\ canHandleCalls[2].result = TRUE
    /\ canHandleCalls[2].asked # <<>>


----------------------------------------------------------------------------
(* Properties of the video provider adapters                               *)

VideoDone == videoPc = "done"

\* A 2xx answer that carries a usable id.
GivesId(answer) ==
    /\ answer.settles = "resolves"
    /\ ok(answer)
    /\ answer.body.json
    /\ answer.body.id.set
    /\ answer.body.id.v # 0

\* The generateVideo call of the claim: the adapter was made with
\* httpPolicy.maxAttempts = 2, the first answer is 503, the second a 2xx.
TransientThenSuccess ==
    /\ videoJob.program = "generateVideo"
    /\ videoJob.fetchFn
    /\ videoJob.httpPolicy = Some(2)
    /\ Len(fetchScript) >= 2
    /\ fetchScript[1] = ErrorAnswer(503)
    /\ GivesId(fetchScript[2])

\* C24: createHttpVideoProviderAdapter applies the HTTP resilience policy:
\* with httpPolicy maxAttempts = 2, a generateVideo call whose first answer
\* is 503 and whose second is a 2xx has, once settled, made exactly 2 fetch
\* calls and returned the generated video id.
C24_GenerateVideoRetriesTransientFailure ==
    (TransientThenSuccess /\ VideoDone) =>
        /\ Len(fetchFnCalls) = 2
        /\ videoResult = VideoFulfilled([NoVideoValue EXCEPT
                                           !.videoId = fetchScript[2].body.id.v])


\* A produceVideo run of the Pixelverse adapter on a URL image, with an
\* injected fetchFn, that completed on its second poll.
CompletedOnSecondPoll ==
    /\ videoJob.program = "produceVideo"
    /\ videoJob.image = "URL"
    /\ videoJob.fetchFn
    /\ VideoDone
    /\ videoResult.kind = "fulfilled"
    /\ Len(videoLocals.polled) = 2

PathsCalled == [i \in 1..Len(netCalls) |-> netCalls[i].path]

\* Download, upload, generation with the uploaded image id, two polls of the
\* generated video id.
StepsInOrder ==
    /\ PathsCalled = <<ImageUrl, UploadImagePath, GenerateVideoPath,
                       getVideoResultPath(videoLocals.videoId),
                       getVideoResultPath(videoLocals.videoId)>>
    /\ netCalls[3].img_id = videoLocals.imageId
    /\ videoResult.value.videoId = videoLocals.videoId

\* C25: a produceVideo run of the Pixelverse adapter that completes on its
\* second poll has downloaded the URL image, uploaded it, generated the video
\* with the uploaded image id and polled the generated video id twice, in
\* that order, and every one of these calls went through the injected
\* fetchFn, which was called exactly 5 times.
C25_ProduceVideoStepsThroughFetchFn ==
    CompletedOnSecondPoll =>
        /\ StepsInOrder
        /\ \A i \in 1..Len(netCalls) : netCalls[i].via = "fetchFn"
        /\ Len(fetchFnCalls) = 5


\* createVideoProviderPlatform is given an empty or blank apiKey.
BlankKeyConstruction ==
    /\ videoJob.program = "createVideoProviderPlatform"
    /\ trim(videoJob.apiKey) = <<>>

\* C26: createVideoProviderPlatform validates its API key: a construction
\* with an empty or blank apiKey makes no provider call, the eager balance
\* call included, and when it settles it is rejected.
C26_BlankKeyConstructionRejected ==
    BlankKeyConstruction =>
        /\ netCalls = <<>>
        /\ VideoDone => videoResult.kind = "rejected"


----------------------------------------------------------------------------
(* Properties of the chatbot client                                        *)

ChatDone == chatPc = "done"

\* The token in the cookie when chatWithAI was called, and now.
ExistingToken == readCookie(chatOptions.document, cookieAtCall, csrfCookieName)
TokenNow == readCookie(chatOptions.document, documentCookie, csrfCookieName)

BootstrapAllowed == chatOptions.bootstrapCsrf # "false"

\* The call got as far as its POST: nothing failed before.
Posted == chatCalls # <<>> /\ chatCalls[Len(chatCalls)].method = "POST"

\* C27 as stated, for the calls in which nothing failed before the POST: a
\* chatWithAI call that found no CSRF cookie, bootstrap not being disabled,
\* has issued one GET and then one POST whose CSRF header carries the token
\* read from the cookie after the GET; a call that found the cookie has
\* issued only the POST, carrying that token.
C27_AsStated ==
    (ChatDone /\ Posted) =>
        /\ (~ExistingToken.defined /\ BootstrapAllowed) =>
                /\ chatCalls = <<ChatCall("GET", Undefined), ChatCall("POST", TokenNow)>>
                /\ TokenNow.defined
        /\ ExistingToken.defined =>
                chatCalls = <<postCall(ExistingToken)>>

\* The call got as far as ensureCsrfToken.
ReachedCsrf == chatOptions.fetch /\ chatOptions.authHeaders # "throws"

\* C27: a chatWithAI call that could read no token (no cookie, or an empty
\* one), bootstrap not being disabled, has issued one GET and then, unless
\* the GET failed, one POST whose CSRF header carries the token read from the
\* cookie after the GET, the header being left out when there is still no
\* token; a call that found a token has issued only the POST, carrying that
\* token; a call that failed before ensureCsrfToken has issued nothing.
C27_CsrfBootstrapBeforePost ==
    (ChatDone /\ chatOptions.operation = "chatWithAI") =>
        /\ (ReachedCsrf /\ ~truthy(ExistingToken) /\ BootstrapAllowed) =>
                \/ /\ chatCalls = <<ChatCall("GET", Undefined)>>
                   /\ chatResult = ChatRejected("TypeError", 0)
                \/ /\ chatCalls = <<ChatCall("GET", Undefined), postCall(TokenNow)>>
                   /\ truthy(TokenNow) => chatCalls[2].csrf = TokenNow
                   /\ ~truthy(TokenNow) => chatCalls[2].csrf = Undefined
        /\ (ReachedCsrf /\ truthy(ExistingToken)) =>
                chatCalls = <<ChatCall("POST", ExistingToken)>>
        /\ ~ReachedCsrf => chatCalls = <<>>

\* The call of the test: no cookie, the GET sets csrf-token=csrf123, the
\* POST carries csrf123 and is answered.
C27_Witness ==
    /\ chatOptions.operation = "chatWithAI"
    /\ ChatDone
    /\ cookieAtCall = JarEmpty
    /\ chatOptions.bootstrapCsrf = "undefined"
    /\ chatCalls = <<ChatCall("GET", Undefined),
                     ChatCall("POST", Defined(<<"c", "s", "r", "f", "1", "2", "3">>))>>
    /\ chatResult = ChatFulfilled

\* The cookie holds a token already: the POST alone, with the token.
C27_WitnessCookiePresent ==
    /\ chatOptions.operation = "chatWithAI"
    /\ ChatDone
    /\ cookieAtCall = JarSecond
    /\ BootstrapAllowed
    /\ chatCalls = <<ChatCall("POST", Defined(<<"c", "s", "r", "f", "1", "2", "3">>))>>


----------------------------------------------------------------------------
(* Properties of fetchWithPolicy: the request factory and the attempts     *)

\* The attempts started so far: those that are over, and the one whose
\* factory call is pending or whose network call is under way.
AttemptsStarted == Len(history) + (IF pc = "factory" \/ CallUnderWay THEN 1 ELSE 0)

\* C28: createRequestInit is invoked exactly once at the start of every
\* attempt, before that attempt's network call: the number of factory
\* invocations equals the number of attempts started at all times, it equals
\* the loop counter during an attempt, the factory is invoked at the loop
\* test and nowhere else, and every network call is made when the factory
\* invoked for that attempt has yielded, so that no request serves two
\* attempts.
C28_FactoryInvokedOncePerAttempt ==
    /\ [](/\ factoryCalls = AttemptsStarted
          /\ calls <= factoryCalls
          /\ (pc \in {"factory", "cancelling", "sleeping"} \/ CallUnderWay)
                => factoryCalls = attempt
          /\ pc = "attempt" => factoryCalls = attempt - 1)
    /\ [][factoryCalls' # factoryCalls =>
            (factoryCalls' = factoryCalls + 1 /\ pc = "attempt" /\ calls' = calls)]_vars
    /\ [][calls' # calls =>
            (/\ calls' = calls + 1
             /\ pc = "factory"
             /\ factoryCalls' = factoryCalls
             /\ factoryCalls = attempt)]_vars

\* A second attempt is under way: two factory invocations, two network calls.
C28_Witness ==
    /\ pc = "fetching"
    /\ attempt = 2
    /\ factoryCalls = 2
    /\ calls = 2


\* policy.maxAttempts ?? the default, in halves, before Math.max(1, ...).
RequestedMaxAttemptsX2 ==
    IF rawPolicy.maxAttemptsX2.set THEN rawPolicy.maxAttemptsX2.v
    ELSE 2 * DefaultMaxAttempts

\* The call awaits the promise of response.body?.cancel().
DiscardPending == pc = "cancelling"

\* C29 as stated: whatever the transport answers, the number of network
\* calls never exceeds max(1, maxAttempts); and when every factory call,
\* network call and sleep settles, the call ends, with a response returned
\* or an error raised.
C29_AsStated ==
    /\ [](2 * calls <= Max(2, RequestedMaxAttemptsX2))
    /\ [](Final => result.kind \in {"response", "error"})
    /\ <>Final

\* C29: whatever the transport answers, the number of network calls never
\* exceeds max(1, maxAttempts); and when every factory call, network call
\* and sleep settles, and so does every discard of the body of a response
\* that is retried, the call ends, with a response returned or an error
\* raised.
C29_BoundedCallsAndTermination ==
    /\ [](2 * calls <= Max(2, RequestedMaxAttemptsX2))
    /\ [](Final => result.kind \in {"response", "error"})
    /\ (<>Final \/ <>[]DiscardPending)

\* The first attempt got a retryable status with attempts left: the delay is
\* decided, the body is being discarded and nothing else is pending.
C29_WitnessDiscardPending ==
    /\ DiscardPending
    /\ calls = 1
    /\ history = <<Entry(503, "none")>>
    /\ delivered.bodyCancelled
    /\ ~timerArmed /\ ~listenerOn
    /\ result = NoResult

\* A call that used all the attempts it was allowed and ended.
C29_Witness ==
    /\ Final
    /\ calls > 1
    /\ 2 * calls <= Max(2, RequestedMaxAttemptsX2)
    /\ 2 * (calls + 1) > Max(2, RequestedMaxAttemptsX2)


----------------------------------------------------------------------------
(* Properties of fetchWithPolicy: methods that are not retried             *)

\* The factory gave a request whose method, upper-cased, GET by default, is
\* not in the policy's retryable method set.
MethodNotRetryable ==
    /\ method \notin policy.retryableMethods
    /\ (history # <<>> => ~ErrorAt(1, "factory"))

\* What the caller gets for the way the first attempt ended.
ErrorRaisedFor(tag) ==
    CASE tag = "timeout" -> TimeoutError
      [] tag \in {"extAbort", "preAbort"} -> abortReason
      [] OTHER -> tag

\* The only network call was answered: the response is returned as it came,
\* its body untouched.
FirstResponseReturned ==
    /\ pc = "returned"
    /\ result = Returned(delivered)
    /\ delivered \in Responses(1)
    /\ delivered.status = history[1].status

\* The first attempt failed: its error is what the call raises.
FirstErrorRaised ==
    /\ pc = "rejected"
    /\ result = Rejected(ErrorRaisedFor(history[1].error))

\* C30 as stated: with a method that is not retryable the finished call has
\* made exactly one network call; a response, 2xx or not, retryable status
\* or not, was returned as it came, and an exception was raised as it was.
C30_AsStated ==
    (MethodNotRetryable /\ Final) =>
        /\ calls = 1
        /\ Len(history) = 1
        /\ IF ErrorAt(1, "none") THEN FirstResponseReturned ELSE FirstErrorRaised

\* C30: with a method that is not retryable there is never a second network
\* call nor a sleep, and the finished call has made exactly one network call,
\* or none when the external signal was already aborted as the attempt
\* started; a response, 2xx or not, retryable status or not, was returned as
\* it came, and an exception was raised as it was.
C30_NonRetryableMethodSingleCall ==
    MethodNotRetryable =>
        /\ calls <= 1
        /\ pc \notin {"cancelling", "sleeping"}
        /\ attempt = 1
        /\ Final =>
              /\ Len(history) = 1
              /\ calls = (IF ErrorAt(1, "preAbort") THEN 0 ELSE 1)
              /\ IF ErrorAt(1, "none") THEN FirstResponseReturned ELSE FirstErrorRaised

\* PATCH under a policy that allows more attempts and retries 503: the 503
\* answer to the only call is what the call returned.
C30_Witness ==
    /\ MethodNotRetryable
    /\ policy.maxAttemptsX2 >= 4
    /\ pc = "returned"
    /\ calls = 1
    /\ history[1].status = 503
    /\ 503 \in policy.retryableStatusCodes
    /\ result.response.status = 503

\* A TypeError of the transport on the only call is what the call raised.
C30_WitnessException ==
    /\ MethodNotRetryable
    /\ policy.maxAttemptsX2 >= 4
    /\ pc = "rejected"
    /\ calls = 1
    /\ ErrorAt(1, "TypeError")
    /\ result = Rejected("TypeError")


----------------------------------------------------------------------------
(* Properties of fetchWithPolicy: the delay between attempts               *)

\* A retry was decided and its sleep is pending or over.
DelayDecided == pc \in {"cancelling", "sleeping", "attempt"} /\ retry.cause # "none"

\* The attempt a after which that retry was decided.
RetriedAttempt == IF pc \in {"cancelling", "sleeping"} THEN attempt ELSE attempt - 1

\* min(maxDelayMs, baseDelayMs * 2^(a-1))
CappedExponential(a) == Min(policy.maxDelayMs, policy.baseDelayMs * Pow2(a - 1))

\* The Retry-After delay of the retried response as far as it counts: the
\* parsed header when the policy respects it and it parses, otherwise 0.
CountedRetryAfterMs ==
    IF policy.respectRetryAfter /\ retry.header.kind \in {"seconds", "date"}
    THEN parseRetryAfterMs(retry.header)
    ELSE 0

\* The delay is max(retryAfterMs, backoffMs) after a response and backoffMs
\* after an exception, and the whole of it is slept.
DelayComposed ==
    /\ retry.cause = "status" => delayMs = Max(CountedRetryAfterMs, retry.backoffMs)
    /\ retry.cause = "error" => delayMs = retry.backoffMs
    /\ pc = "attempt" => sleptMs = delayMs

\* x rounded to the nearest whole number, for x = num / den >= 0.
RoundedRatio(num, den) == (2 * num + den) \div (2 * den)

\* C31 as stated: the delay slept after attempt a is max(retryAfterMs,
\* backoffMs) for a retried response and backoffMs for a retried exception,
\* and backoffMs is at least min(maxDelayMs, baseDelayMs * 2^(a-1)), at most
\* that value times (1 + jitterRatio), and 0 when that value is 0.
C31_AsStated ==
    DelayDecided =>
        LET capped == CappedExponential(RetriedAttempt)
        IN  /\ DelayComposed
            /\ retry.backoffMs >= capped
            /\ 100 * retry.backoffMs <= capped * (100 + policy.jitterPct)
            /\ (capped = 0 => retry.backoffMs = 0)

\* C31, amended: the delay is composed as stated, and backoffMs is a whole
\* number of milliseconds that is at least min(maxDelayMs, baseDelayMs *
\* 2^(a-1)) and at most that value times (1 + jitterRatio), both rounded to
\* the nearest millisecond, and 0 when that value is 0.
C31_DelayIsRetryAfterOrBackoff ==
    DelayDecided =>
        LET capped == CappedExponential(RetriedAttempt)
        IN  /\ DelayComposed
            /\ retry.backoffMs >= RoundedRatio(capped, 1)
            /\ retry.backoffMs <= RoundedRatio(capped * (100 + policy.jitterPct), 100)
            /\ (capped = 0 => retry.backoffMs = 0)

\* A 503 with Retry-After: 1 was retried under a policy that respects the
\* header: the jittered backoff was below 1000 ms and 1000 ms were slept.
C31_Witness ==
    /\ pc = "attempt"
    /\ retry.cause = "status"
    /\ CountedRetryAfterMs = 1000
    /\ retry.backoffMs > CappedExponential(RetriedAttempt)
    /\ retry.backoffMs < 1000
    /\ sleptMs = 1000

\* A network failure was retried with maxDelayMs = 4 and the default jitter
\* ratio: Math.round(4 + 4 * 0.2 * 2/3) = 5 ms were slept.
C31_WitnessRounded ==
    /\ pc = "attempt"
    /\ retry.cause = "error"
    /\ CappedExponential(RetriedAttempt) = 4
    /\ policy.jitterPct = 20
    /\ sleptMs = 5


----------------------------------------------------------------------------
(* Properties of fetchWithPolicy: the error of an exhausted call           *)

\* Attempt i ended in an exception that isRetryableError accepts: a
\* TypeError or an AbortError.
RetryableExceptionAt(i) ==
    /\ history[i].error \notin {"none", "factory"}
    /\ isRetryableError(ErrorRaisedFor(history[i].error))

AllAttemptsThrewRetryable ==
    /\ Len(history) >= 1
    /\ \A i \in 1..Len(history) : RetryableExceptionAt(i)

\* C32: every policy makes at least one attempt, and when every attempt of
\* the finished call ended in a retryable transport exception the call is
\* rejected with the error the last attempt threw, which is also the last
\* error the loop recorded; the generic "failed without a recoverable
\* response" error is not what the caller gets.
C32_LastErrorPropagates ==
    /\ Final => Len(history) >= 1
    /\ (Final /\ AllAttemptsThrewRetryable) =>
          /\ pc = "rejected"
          /\ result = Rejected(ErrorRaisedFor(history[Len(history)].error))
          /\ lastError = result.error
          /\ result.error # GenericError

\* Three attempts were allowed and each met a network failure: the call was
\* rejected with the TypeError of the third.
C32_Witness ==
    /\ Final
    /\ WholeAttempts
    /\ EffectiveMaxAttempts >= 2
    /\ Len(history) = EffectiveMaxAttempts
    /\ \A i \in 1..Len(history) : ErrorAt(i, "TypeError")
    /\ calls = EffectiveMaxAttempts
    /\ result = Rejected("TypeError")

\* maxAttempts = 2.5: both attempts met a network failure and were retried,
\* and the statement after the loop raised the second failure.
C32_WitnessAfterLoop ==
    /\ Final
    /\ ~WholeAttempts
    /\ AllAttemptsThrewRetryable
    /\ 2 * Len(history) < policy.maxAttemptsX2
    /\ 2 * attempt > policy.maxAttemptsX2
    /\ result = Rejected("TypeError")


----------------------------------------------------------------------------
(* Properties of the routing engine: handlers invoked by a call            *)

\* The adapters on which call k may invoke a handler: the one resolution
\* selects for its operation, when that adapter has a key.
Invocable(k) ==
    {i \in 1..Len(adapters) :
        /\ Selected(i, OperationCapability(opCalls[k].op), opCalls[k].op)
        /\ KeyPresent(adapters[i].id)}

\* C33: every operation call invokes one handler, once: the handler of its
\* operation on the adapter that resolution selects, and none on another
\* adapter; a call whose resolution fails invokes none.  A step invokes a
\* handler only as part of a new call (or of the eager balance check of the
\* construction), one at most, and the settling of a handler invokes none.
C33_OneHandlerPerCall ==
    /\ [](\A k \in 1..Len(opCalls) :
            /\ Cardinality(Invocable(k)) <= 1
            /\ IF Invocable(k) = {}
               THEN InvocationsOf(k) = {} /\ opCalls[k].adapter = 0
               ELSE \A i \in Invocable(k) :
                      /\ ServedBy(k, i, opCalls[k].op)
                      /\ opCalls[k].op \in adapters[i].handlers)
    /\ [](\A j \in 1..Len(invocations) : invocations[j].call \in 0..Len(opCalls))
    /\ [][ /\ Len(invocations') >= Len(invocations)
           /\ Len(invocations') - Len(invocations)
                 <= (Len(opCalls') - Len(opCalls)) + (IF platform = "new" THEN 1 ELSE 0)
         ]_vars

\* Two adapters with keys both serve generateImage: the call invoked the
\* handler of the first one, once, and nothing on the second.
C33_Witness ==
    /\ Len(adapters) = 2
    /\ ServesAt(1, "Image", "generateImage")
    /\ ServesAt(2, "Image", "generateImage")
    /\ KeyPresent(adapters[1].id) /\ KeyPresent(adapters[2].id)
    /\ defaultAdapterByCapability["Image"] = ""
    /\ \E k \in 1..Len(opCalls) :
          /\ opCalls[k].op = "generateImage"
          /\ opCalls[k].state = "fulfilled"
          /\ Cardinality(InvocationsOf(k)) = 1
          /\ \A j \in InvocationsOf(k) : invocations[j].adapter = 1
          /\ \A j \in 1..Len(invocations) :
                invocations[j].adapter = 2 => invocations[j].call = 0

\* A mandatory call whose resolution failed: rejected, no handler invoked
\* for it.
C33_WitnessResolutionFails ==
    \E k \in 1..Len(opCalls) :
        /\ opCalls[k].op = "generateImage"
        /\ opCalls[k].state = "rejected"
        /\ InvocationsOf(k) = {}
        /\ \E i \in 1..Len(adapters) : ServesAt(i, "Image", "generateImage")


----------------------------------------------------------------------------
(* Properties of the video provider adapters: waitForCompletion            *)

\* produceVideo has entered waitForCompletion.
InWaitForCompletion ==
    /\ videoJob.program \in ProduceVideoPrograms
    /\ videoLocals.awaited.state # "none"

\* The getVideoResult calls among the network calls.
ResultCalls == SelectSeq(netCalls, LAMBDA c : c.path.kind = "result")

\* The polls begun, and those whose network call has been answered.
PollsMade == Len(ResultCalls)
PollsAnswered == Len(videoLocals.polled)

\* getVideoResult has given waitForCompletion the result of every poll made.
PollsJudged == PollsAnswered = PollsMade /\ videoLocals.awaiting = "none"

\* What poll i reported: getVideoResult threw, or the state it gave.
Reported(i) ==
    LET data == fetchJson(videoLocals.polled[i])
    IN  IF data.threw THEN "threw" ELSE defaultResultMapper(data.data).state

ReportedUrl(i) == defaultResultMapper(fetchJson(videoLocals.polled[i]).data).videoUrl

\* The errors of the two copies of waitForCompletion.
TimedOut ==
    IF videoJob.program = "produceVideo"
    THEN "Timed out waiting for Pixelverse video completion."
    ELSE "Timed out waiting for provider video completion."
GenerationFailed ==
    IF videoJob.program = "produceVideo"
    THEN "Pixelverse video generation failed."
    ELSE "Video generation failed in provider adapter."

\* The least whole number of polls that is not below maxRetries.
PollsAllowed == IF maxRetriesX2 <= 0 THEN 0 ELSE (maxRetriesX2 + 1) \div 2

\* waitForCompletion with bound polls on the number of its polls: one
\* network call per poll, each after one more wait of the configured delay;
\* every poll before the last one made reported pending; a poll that
\* reports completed with a video URL ends the wait with that URL, a poll
\* that reports failed ends it with the generation-failed error, a poll
\* that throws with its error, bound pending polls with the timed-out
\* error, and fewer pending polls leave it running.
WaitForCompletionPolls(bound) ==
    /\ PollsMade <= bound
    /\ PollsAnswered \in {PollsMade - 1, PollsMade}
    /\ videoLocals.delays = PollsMade
          + (IF videoPc = "poll" /\ videoLocals.awaiting = "none" THEN 1 ELSE 0)
    /\ videoLocals.waitedMs = videoLocals.delays * pollDelayMs
    /\ \A i \in 1..(PollsMade - 1) : Reported(i) = "pending"
    /\ (PollsJudged /\ PollsMade >= 1 /\ Reported(PollsMade) = "completed") =>
          /\ ReportedUrl(PollsMade) # ""
          /\ videoLocals.awaited = InnerReturnedUrl(ReportedUrl(PollsMade))
    /\ (PollsJudged /\ PollsMade >= 1 /\ Reported(PollsMade) = "failed") =>
          videoLocals.awaited = InnerThrew(VideoError(GenerationFailed, 0))
    /\ (PollsJudged /\ PollsMade >= 1 /\ Reported(PollsMade) = "threw") =>
          videoLocals.awaited.state = "threw"
    /\ (PollsJudged /\ \A i \in 1..PollsMade : Reported(i) = "pending") =>
          IF PollsMade >= bound
          THEN videoLocals.awaited = InnerThrew(VideoError(TimedOut, 0))
          ELSE videoLocals.awaited = InnerRunning /\ videoPc \in {"delay", "poll"}
    /\ videoLocals.awaited.state = "returned" =>
          /\ PollsJudged
          /\ PollsMade >= 1
          /\ Reported(PollsMade) = "completed"
    /\ ~PollsJudged => videoLocals.awaited = InnerRunning /\ videoPc = "poll"

\* C34 as it is stated: the bound on the polls is maxRetries itself.
C34_AsStated ==
    InWaitForCompletion =>
        /\ 2 * PollsMade <= maxRetriesX2
        /\ WaitForCompletionPolls(maxRetriesX2 \div 2)

\* C34: waitForCompletion, in the Pixelverse adapter and in the video
\* provider platform alike, polls getVideoResult at most as many times as
\* the least whole number that is not below maxRetries (maxRetries itself
\* when it is whole), one network call per poll, and each poll comes after
\* one more wait of the configured delay; every poll before the last one
\* made reported pending, so that none follows a completed, failed or
\* throwing poll; a poll that reports completed with a video URL ends the
\* wait with that URL, a poll that reports failed ends it with the
\* generation-failed error, that many pending polls end it with the
\* timed-out error, and fewer pending polls leave it running.
C34_WaitForCompletionPollsBounded ==
    InWaitForCompletion => WaitForCompletionPolls(PollsAllowed)

\* Three polls allowed, the default delay: the first poll was pending, the
\* second completed, and its URL is what the wait gave after two delays and
\* what produceVideo returned.
C34_Witness ==
    /\ videoJob.program = "produceVideo"
    /\ InWaitForCompletion
    /\ maxRetriesX2 = 6
    /\ PollsMade = 2
    /\ PollsJudged
    /\ Reported(1) = "pending"
    /\ Reported(2) = "completed"
    /\ videoLocals.waitedMs = 2 * DefaultPollDelayMs
    /\ videoLocals.awaited = InnerReturnedUrl(CdnVideoUrl)
    /\ videoPc = "done"
    /\ videoResult.kind = "fulfilled"
    /\ videoResult.value.url = CdnVideoUrl

\* Three polls allowed and all three pending: timed out.
C34_WitnessTimedOut ==
    /\ videoJob.program = "produceVideo"
    /\ InWaitForCompletion
    /\ maxRetriesX2 = 6
    /\ PollsMade = 3
    /\ PollsJudged
    /\ \A i \in 1..3 : Reported(i) = "pending"
    /\ videoLocals.awaited = InnerThrew(VideoError(TimedOut, 0))

\* The first of three polls allowed reported failed: the wait ended there.
C34_WitnessFailed ==
    /\ videoJob.program = "produceVideo"
    /\ InWaitForCompletion
    /\ maxRetriesX2 = 6
    /\ PollsMade = 1
    /\ PollsJudged
    /\ Reported(1) = "failed"
    /\ videoLocals.awaited = InnerThrew(VideoError(GenerationFailed, 0))

\* maxRetries 2.5 on the platform: a third poll was made after two pending
\* ones, and three pending polls timed out.
C34_WitnessFractional ==
    /\ videoJob.program = "platform.produceVideo"
    /\ InWaitForCompletion
    /\ maxRetriesX2 = 5
    /\ PollsMade = 3
    /\ PollsJudged
    /\ \A i \in 1..3 : Reported(i) = "pending"
    /\ videoLocals.awaited =
          InnerThrew(VideoError("Timed out waiting for provider video completion.", 0))

\* The platform's copy: the second poll completed and the wait gave its URL.
C34_WitnessPlatform ==
    /\ videoJob.program = "platform.produceVideo"
    /\ InWaitForCompletion
    /\ PollsMade = 2
    /\ PollsJudged
    /\ Reported(1) = "pending"
    /\ Reported(2) = "completed"
    /\ videoLocals.awaited = InnerReturnedUrl(CdnVideoUrl)

\* A poll is made and its answer is still to come.
C34_WitnessPollPending ==
    /\ InWaitForCompletion
    /\ PollsMade = 2
    /\ PollsAnswered = 1
    /\ videoLocals.awaiting = "fetch"
    /\ videoLocals.awaited = InnerRunning


----------------------------------------------------------------------------
(* Properties of canHandle: a true answer and resolution                   *)

\* Resolution as operation op asks for it: optional for checkBalance,
\* required for the others.
ResolutionOf(op) == resolveAdapter(OperationCapability(op), op, op # "checkBalance")

\* Operation op passes resolution, and resolves to the adapter canHandle
\* examines for the capability.
ResolvesToExamined(capability, op) ==
    /\ ResolutionOf(op).kind = "resolved"
    /\ ResolutionOf(op).adapter = canHandleAdapter(capability)
    /\ op \in adapters[canHandleAdapter(capability)].handlers

\* C35 as stated: whenever canHandle returned true, each capability it was
\* asked about has an operation that passes resolution on the same
\* configuration and resolves to the adapter that canHandle examined for
\* the capability.
C35_AsStated ==
    \A p \in 1..Len(canHandleCalls) :
        (Answered(p) /\ canHandleCalls[p].result) =>
            \A n \in 1..Len(canHandleCalls[p].capabilities) :
                LET capability == canHandleCalls[p].capabilities[n]
                IN  \E op \in OperationsOf(capability) :
                        ResolvesToExamined(capability, op)

\* C35: whenever canHandle returned true, each capability it was asked about
\* that has an operation (the one operation of Chat, Image, Video, Model or
\* Balance; synthesizeSpeech or transcribeSpeech for Speech; Text has none)
\* has an operation that passes resolution on the same configuration and
\* resolves to the adapter that canHandle examined for the capability.
C35_CanHandleTrueImpliesResolution ==
    \A p \in 1..Len(canHandleCalls) :
        (Answered(p) /\ canHandleCalls[p].result) =>
            \A n \in 1..Len(canHandleCalls[p].capabilities) :
                LET capability == canHandleCalls[p].capabilities[n]
                IN  OperationsOf(capability) # {}
                    => \E op \in OperationsOf(capability) :
                          ResolvesToExamined(capability, op)

\* canHandle([Text]) was true for an adapter that declares Text and has a
\* key: no operation of the platform resolves Text.
C35_WitnessText ==
    /\ OperationsOf("Text") = {}
    /\ \E p \in 1..Len(canHandleCalls) :
          /\ Answered(p)
          /\ canHandleCalls[p].capabilities = <<"Text">>
          /\ canHandleCalls[p].result
          /\ canHandleAdapter("Text") # 0

\* canHandle was true for each of Chat, Video, Balance and the value of
\* AICapability.Model on some platform: the operation of the capability
\* resolves to the adapter examined.
C35_WitnessChat ==
    /\ \E p \in 1..Len(canHandleCalls) :
          /\ Answered(p)
          /\ canHandleCalls[p].capabilities = <<"Chat">>
          /\ canHandleCalls[p].result
    /\ ResolvesToExamined("Chat", "chatWithAI")

C35_WitnessVideo ==
    /\ \E p \in 1..Len(canHandleCalls) :
          /\ Answered(p)
          /\ canHandleCalls[p].capabilities = <<"Video">>
          /\ canHandleCalls[p].result
    /\ ResolvesToExamined("Video", "produceVideo")

C35_WitnessBalance ==
    /\ \E p \in 1..Len(canHandleCalls) :
          /\ Answered(p)
          /\ canHandleCalls[p].capabilities = <<"Balance">>
          /\ canHandleCalls[p].result
    /\ ResolvesToExamined("Balance", "checkBalance")

C35_WitnessModel ==
    /\ \E p \in 1..Len(canHandleCalls) :
          /\ Answered(p)
          /\ canHandleCalls[p].capabilities = <<AICapabilityModel>>
          /\ canHandleCalls[p].result
    /\ ResolvesToExamined(AICapabilityModel, "generateModel")

\* canHandle([Speech]) was true on a registry of two adapters where the
\* adapter examined transcribes but does not synthesize: transcribeSpeech
\* resolves to it, synthesizeSpeech does not.
C35_Witness ==
    /\ Len(adapters) = 2
    /\ \E p \in 1..Len(canHandleCalls) :
          /\ Answered(p)
          /\ canHandleCalls[p].capabilities = <<"Speech">>
          /\ canHandleCalls[p].result
    /\ ResolvesToExamined("Speech", "transcribeSpeech")
    /\ ~ResolvesToExamined("Speech", "synthesizeSpeech")

\* canHandle([Image]) was true with a default that names the second adapter
\* while the first one serves Image too: generateImage resolves to the
\* second.
C35_WitnessDefault ==
    /\ Len(adapters) = 2
    /\ defaultAdapterByCapability["Image"] = adapters[2].id
    /\ ServesAt(1, "Image", "generateImage")
    /\ KeyPresent(adapters[1].id)
    /\ \E p \in 1..Len(canHandleCalls) :
          /\ Answered(p)
          /\ canHandleCalls[p].capabilities = <<"Image">>
          /\ canHandleCalls[p].result
    /\ ResolutionOf("generateImage").adapter = 2


----------------------------------------------------------------------------
(* Properties of fetchWithPolicy: failures that are not transient          *)

\* The error with which attempt i ended, if it ended with one.
RaisedAt(i) ==
    IF history[i].error = "factory" THEN "FactoryError"
    ELSE ErrorRaisedFor(history[i].error)

\* Attempt i ended in a failure that is neither a network failure
\* (TypeError) nor an abort error: another error of the transport, the
\* timeout Error, a custom abort reason, or an error of the request factory.
OtherFailureAt(i) ==
    /\ history[i].error # "none"
    /\ RaisedAt(i) \notin {"TypeError", "AbortError"}

\* C36: a failure that is neither a TypeError nor an abort error, an error
\* of the request factory included, ends the call at once, whatever the
\* policy and however many attempts remain: the step in which
\* fetchWithPolicy receives the failure rejects the call with that error and
\* starts no sleep, and the failed attempt stays the last one, with no
\* network call after it.
C36_OtherFailurePropagatesAtOnce ==
    /\ []((Len(history) >= 1 /\ OtherFailureAt(Len(history))) =>
            /\ pc = "rejected"
            /\ result = Rejected(RaisedAt(Len(history)))
            /\ attempt = Len(history)
            /\ factoryCalls = Len(history)
            /\ calls <= Len(history)
            /\ sleepLeft = 0)
    /\ [][(Len(history') > Len(history) /\ OtherFailureAt(Len(history))') =>
            /\ pc' = "rejected"
            /\ attempt' = attempt
            /\ calls' = calls
            /\ delayMs' = delayMs
            /\ retry' = retry]_vars

\* The first of several attempts allowed to a retryable method met an error
\* that is neither a TypeError nor an abort error: rejected after one call.
C36_Witness ==
    /\ policy.maxAttemptsX2 >= 4
    /\ canRetryMethod
    /\ ~extAborted
    /\ Len(history) = 1
    /\ ErrorAt(1, "OtherError")
    /\ calls = 1
    /\ pc = "rejected"
    /\ result = Rejected("OtherError")

\* The factory threw as the second attempt started: rejected with its
\* error, one network call made.
C36_WitnessFactory ==
    /\ Len(history) = 2
    /\ ErrorAt(2, "factory")
    /\ 2 * 3 <= policy.maxAttemptsX2
    /\ calls = 1
    /\ factoryCalls = 2
    /\ result = Rejected("FactoryError")


----------------------------------------------------------------------------
(* Properties of fetchWithPolicy: a signal aborted before the attempt      *)

\* The factory has been called for an attempt and the external signal of
\* its request is already aborted.
AttemptStartsAborted ==
    /\ pc = "factory"
    /\ reqInit.signal
    /\ extAborted

\* The attempts that ended without a network call having been made.
AttemptsWithoutCall ==
    {i \in 1..Len(history) : history[i].error \in {"preAbort", "factory"}}

\* C37: when an attempt starts with the external signal already aborted
\* (before the call, during the sleep before the attempt or while the
\* factory was awaited), the step that follows the factory makes no network
\* call, ends the call, and, the
\* factory having given its request, rejects with the signal's reason; that
\* attempt stays the last one and the number of network calls is that of the
\* attempts before it, whatever the policy and the reason.
C37_AbortedSignalEndsCallWithoutFetch ==
    /\ [][AttemptStartsAborted =>
            /\ calls' = calls
            /\ pc' = "rejected"
            /\ attempt' = attempt
            /\ sleepLeft' = sleepLeft
            /\ ~timerArmed' /\ ~listenerOn'
            /\ (ErrorAt(Len(history), "preAbort"))' => result' = Rejected(abortReason)
         ]_vars
    /\ []((Len(history) >= 1 /\ ErrorAt(Len(history), "preAbort")) =>
            /\ pc = "rejected"
            /\ result = Rejected(abortReason)
            /\ attempt = Len(history)
            /\ calls = Len(history) - 1
            /\ AttemptsWithoutCall = {Len(history)})

\* The signal was aborted with the default AbortError before the first
\* attempt of a retryable method with attempts to spare: no network call,
\* rejected with the AbortError.
C37_Witness ==
    /\ history = <<Entry(0, "preAbort")>>
    /\ abortReason = "AbortError"
    /\ canRetryMethod
    /\ policy.maxAttemptsX2 >= 4
    /\ calls = 0
    /\ factoryCalls = 1
    /\ pc = "rejected"
    /\ result = Rejected("AbortError")

\* The signal fired during the sleep after attempt 1: attempt 2 started
\* aborted and made no call.
C37_WitnessAfterSleep ==
    /\ Len(history) = 2
    /\ ErrorAt(2, "preAbort")
    /\ abortedInSleep
    /\ calls = 1
    /\ attempt = 2
    /\ result = Rejected(abortReason)

\* The signal fired while the factory of attempt 2 was awaited, after a 503
\* retried without delay: one network call, two factory calls.
C37_WitnessDuringFactory ==
    /\ Len(history) = 2
    /\ history[1].status = 503
    /\ ErrorAt(2, "preAbort")
    /\ ~abortedInSleep
    /\ delayMs = 0
    /\ calls = 1
    /\ factoryCalls = 2
    /\ result = Rejected(abortReason)

----------------------------------------------------------------------------
(* Properties of the OpenAI adapter: the identity of a retried request     *)

\* The i-th call the operation made on the network.
NetworkCall(i) == i \in 1..Len(sent)

\* C38: every call an operation of the OpenAI adapter makes on the network
\* is a POST whose Idempotency-Key and X-Request-Id both equal the traceId
\* of the request, so all the attempts of the operation carry the same two
\* values; each attempt makes one such call.
C38_AttemptsCarryTraceId ==
    /\ Len(sent) = calls
    /\ \A i \in 1..Len(sent) :
          /\ sent[i].method = "POST"
          /\ sent[i].IdempotencyKey = openaiCall.traceId
          /\ sent[i].XRequestId = openaiCall.traceId
    /\ \A i, j \in 1..Len(sent) :
          /\ sent[i].IdempotencyKey = sent[j].IdempotencyKey
          /\ sent[i].XRequestId = sent[j].XRequestId

\* A chat request was retried twice and then completed: three calls.
C38_Witness ==
    /\ openaiCall.op = "chatWithAI"
    /\ openaiCall.traceId = <<"t">>
    /\ openaiPc = "done"
    /\ openaiResult.kind = "fulfilled"
    /\ Len(sent) >= 2
    /\ NetworkCall(2) /\ sent[2].IdempotencyKey = <<"t">>
    /\ history[1].error = "TypeError"

\* A transcription was retried after a 503 and failed in the end.
C38_WitnessFailed ==
    /\ openaiCall.op = "transcribeSpeech"
    /\ openaiPc = "done"
    /\ openaiResult.kind = "rejected"
    /\ Len(sent) >= 2
    /\ history[1].status = 503

----------------------------------------------------------------------------
(* Properties of fetchWithTimeout: the timer and the listener of an attempt *)

\* fetchWithTimeout is inside its try block: fetchFn has been called and the
\* finally block has not run.
AttemptPending == pc \in {"fetching", "settling"}

\* This step is the one in which fetchWithTimeout settles.
AttemptSettles == AttemptPending /\ ~AttemptPending'

\* This step is the timeout of fetchWithTimeout aborting a network call.
TimeoutAborts == settlement.tag # "timeout" /\ settlement'.tag = "timeout"

\* C39: the timer and the abort listener of an attempt exist only while
\* fetchWithTimeout awaits the network call of that attempt: the step in
\* which fetchWithTimeout settles removes both, an attempt starts with
\* neither left over from an earlier one, a timeout aborts only the pending
\* call of the attempt that armed it, and once fetchWithPolicy has ended no
\* timer is pending and no listener is registered on the external signal.
C39_TimerAndListenerRemovedAtSettle ==
    /\ []((timerArmed \/ listenerOn) => AttemptPending)
    /\ [](Final => (~timerArmed /\ ~listenerOn))
    /\ [][AttemptSettles => (~timerArmed' /\ ~listenerOn')]_vars
    /\ [][(~AttemptPending /\ AttemptPending')
            => (~timerArmed /\ ~listenerOn /\ timerArmed'
                /\ listenerOn' = reqInit.signal)]_vars
    /\ [][TimeoutAborts
            => (pc = "fetching" /\ timerArmed /\ calls = attempt
                /\ Len(history) = attempt - 1)]_vars

\* The first attempt failed and was retried: the second one is pending, with
\* a timer and a listener of its own.
C39_Witness ==
    /\ reqInit.signal
    /\ Len(history) = 1
    /\ history[1].error = "TypeError"
    /\ attempt = 2
    /\ pc = "fetching"
    /\ timerArmed /\ listenerOn

\* A call given a signal has ended after two network calls, the second of
\* which timed out: nothing is left on the signal.
C39_WitnessEnded ==
    /\ reqInit.signal
    /\ ~extAborted
    /\ Final
    /\ calls = 2
    /\ history[1].status = 503
    /\ history[2].error = "timeout"
    /\ ~timerArmed /\ ~listenerOn

====
